---- MODULE Spec2Model ----
(***************************************************************************)
(* State-machine model of the OCPP 1.6J charging station management        *)
(* system: the Redis-backed monolith (app/main.py: the inline socket loop  *)
(* ocpp_ws, the unified handler handle_ocpp_message used by the pull and   *)
(* pub/sub adapters, and the operator calls RemoteStart / RemoteStop) and  *)
(* the database-backed modular handler (csms/app/ocpp/handlers.py behind   *)
(* csms/app/ocpp/websocket.py).                                            *)
(*                                                                         *)
(* Time is counted in whole seconds.  Durations (minutes) and energies     *)
(* (kWh) are fixed-point numbers in hundredths, as produced by round(x, 2).*)
(***************************************************************************)
EXTENDS Integers, Sequences, FiniteSets, TLC

VARIABLES
    chargers,           \* Redis hash "chargers": charger id -> stored record
    orders,             \* Redis hash "orders": order id (the tx id n of order_<n>) -> record
    charger_websockets, \* socket registry of the monolith: charger id -> attached?
    ws_charger,         \* the local variable `charger` of each running ocpp_ws coroutine
    now,                \* wall clock, seconds
    steps,              \* operations performed so far
    db_chargers,        \* table chargers of the modular handler
    db_transactions,    \* table transactions (sequence of rows, surrogate id = index)
    db_orders,          \* table orders: order id -> row
    connections,        \* ConnectionManager._connections of the modular route
    pending_requests,   \* HTTPAdapter._pending_requests: charger id -> entries in insertion order
    charger_sessions,   \* HTTPAdapter._charger_sessions: the charger ids it holds
    http_queued,        \* per charger: the messages send_message has accepted, in order
    http_handed,        \* per charger: what each poll returned, in order ("null" or a message)
    tm_adapters,        \* TransportManager.adapters: the transport types that have an adapter
    mqtt_connected,     \* MQTTAdapter._connected_chargers
    ws_connections,     \* WebSocketAdapter._connections: the charger ids registered
    tm_last,            \* the latest TransportManager.send_message call and its outcome
    enable_distributed, \* settings.enable_distributed of the deployment
    local_connections,  \* per node: DistributedConnectionManager._local_connections (charger ids)
    cm_connections,     \* per node: ConnectionManager._connections (charger ids)
    connection_key,     \* Redis key ocpp:connection:<charger>: the server id stored, or "none"
    route_coroutines,   \* the <<node, charger>> pairs whose ocpp_websocket_route is running
    route_inbox,        \* per node: envelopes published on ocpp:route:* its subscriber has not read
    response_keys,      \* the message ids whose key ocpp:response:<id> is set
    relay_calls,        \* the operator calls made so far, with what each did
    recv_impl,          \* how the server's socket layer treats two concurrent receives
    ws_sockets,         \* socket handle -> its state, charger, offered header, close code
    ws_registry,        \* charger_websockets as a dict: charger id -> handle (NoHandle: absent)
    ws_waiters,         \* per handle: the coroutines waiting in receive_text, oldest first
    ws_calls,           \* the send_ocpp_call invocations so far
    ws_frames,          \* the frames chargers have sent, each with what became of it
    adapter_calls,      \* charger id -> the state of its WebSocketAdapter.send_message call
    timed_order,        \* one order record, followed from its creation to its completion
    hist_clock,         \* the wall clock (datetime.now()), in seconds
    heartbeat_history,  \* the rows of table heartbeat_history, in insertion order
    status_history,     \* the rows of table status_history, in insertion order
    ws_accepted,        \* the sockets accepted by ocpp_ws, in the order of their accept
    ws_current,         \* charger_websockets as a map from charger id to accepted socket
    reader_snapshot     \* the list a load_chargers() running beside a handler has read

vars == << chargers, orders, charger_websockets, ws_charger,
           now, steps, db_chargers, db_transactions, db_orders, connections,
           pending_requests, charger_sessions, http_queued, http_handed,
           tm_adapters, mqtt_connected, ws_connections, tm_last,
           enable_distributed, local_connections, cm_connections, connection_key,
           route_coroutines, route_inbox, response_keys, relay_calls,
           recv_impl, ws_sockets, ws_registry, ws_waiters, ws_calls, ws_frames,
           adapter_calls, timed_order, hist_clock, heartbeat_history, status_history,
           ws_accepted, ws_current, reader_snapshot >>

redis_vars == << chargers, orders, charger_websockets, ws_charger >>
db_vars == << db_chargers, db_transactions, db_orders, connections >>
pull_vars == << pending_requests, charger_sessions, http_queued, http_handed >>
tm_vars == << tm_adapters, mqtt_connected, ws_connections, tm_last >>
relay_vars == << enable_distributed, local_connections, cm_connections, connection_key,
                 route_coroutines, route_inbox, response_keys, relay_calls >>
sock_vars == << recv_impl, ws_sockets, ws_registry, ws_waiters, ws_calls, ws_frames >>
stop_vars == << adapter_calls >>
calc_vars == << timed_order >>
hist_vars == << hist_clock, heartbeat_history, status_history >>
conc_vars == << ws_accepted, ws_current, reader_snapshot >>
late_vars == << relay_vars, sock_vars, stop_vars, calc_vars, hist_vars, conc_vars >>
ext_vars == << tm_vars, late_vars >>
io_vars == << pull_vars, ext_vars >>

----------------------------------------------------------------------------
(* Bounds of the model *)

MaxTime == 1            \* the clock stops advancing at this many seconds
MaxSteps == 3           \* operations (messages, connects, operator calls) per behaviour
MaxMeter == 1           \* largest meter reading (Wh) a charger reports
MaxTxRows == 3          \* rows the transactions table may hold
MaxTmSteps == 4         \* operations on the transport manager and its adapters
MaxSockets == 1         \* socket handles opened
MaxWsCalls == 1         \* outbound calls made on sockets
MaxFrames == 2          \* frames chargers send on sockets
MaxCalls == 2           \* operator calls made on the nodes
MaxReaderSteps == 2      \* messages handled per behaviour beside the reader
MaxAccepts == 4          \* sockets accepted per behaviour of the reconnect specification
MaxEnvelopes == 1        \* remote commands per behaviour of the subscriber specification
MaxPending == 2         \* outbound messages queued per charger on the pull transport
MaxHeartbeats == 3       \* heartbeats recorded per behaviour
MaxStatusSteps == 3      \* messages handled per behaviour of the status history
MaxTicks == 100         \* longest duration of the timed order, in ticks

(* Program constants *)

DefaultChargingRate == 7    \* kW

(* Inputs *)

ChargerIds == {"CP1", "CP2"}
PayloadTxIds == {1}                     \* transaction ids a charger supplies
NoTx == -1                              \* Python None for a transaction id
NoOrder == -1                           \* Python None for an order id
NoVal == -1                             \* Python None for a number
ReportedStatuses == {"Available", "Charging", "Faulted"}
RedisModes == {"up", "misconf", "down"} \* misconf: reads succeed, writes are refused

\* int(datetime.now().timestamp()) at model time t
Epoch(t) == 100 + t
TxIds == PayloadTxIds \cup {Epoch(t) : t \in 0..MaxTime}

----------------------------------------------------------------------------
(* Inbound messages: {action, payload}.  A payload key that is absent is   *)
(* NoVal (numbers) or "" (strings).                                        *)

Msg(a, st, tag, tx, m, e) ==
    [action |-> a, status |-> st, idTag |-> tag, transactionId |-> tx,
     meter |-> m, energy |-> e]

PlainActions == {"BootNotification", "Heartbeat", "FirmwareStatusNotification",
                 "DiagnosticsStatusNotification", "DataTransfer", "GetLocalListVersion"}

HandledActions == {"BootNotification", "Heartbeat", "StatusNotification", "Authorize",
                   "StartTransaction", "StopTransaction", "MeterValues",
                   "FirmwareStatusNotification", "DiagnosticsStatusNotification",
                   "DataTransfer"}

Messages ==
    {Msg(a, "", "", NoVal, NoVal, NoVal) : a \in PlainActions}
    \cup {Msg("StatusNotification", st, "", NoVal, NoVal, NoVal) : st \in ReportedStatuses}
    \cup {Msg("Authorize", "", tag, NoVal, NoVal, NoVal) : tag \in {"", "U42"}}
    \cup {Msg("StartTransaction", "", "U42", tx, NoVal, NoVal) : tx \in PayloadTxIds \cup {NoVal}}
    \cup {Msg("StopTransaction", "", "", tx, NoVal, NoVal) : tx \in PayloadTxIds \cup {NoVal}}
    \cup {Msg("MeterValues", "", "", NoVal, m, NoVal) : m \in 0..MaxMeter}
    \cup {Msg("MeterValues", "", "", NoVal, NoVal, e) : e \in 0..MaxMeter}

\* the messages that set the status of a charger
StatusMessages ==
    {m \in Messages : m.action \in {"StatusNotification", "BootNotification",
                                    "StartTransaction", "StopTransaction"}}

----------------------------------------------------------------------------
(* Arithmetic *)

\* round(n/d, 0) as Python rounds: to nearest, ties to even
RoundHalfEven(n, d) ==
    LET q == n \div d
        r == n % d
    IN IF 2 * r < d THEN q
       ELSE IF 2 * r > d THEN q + 1
       ELSE IF q % 2 = 0 THEN q ELSE q + 1

\* round(duration_seconds / 60.0, 2), in hundredths of a minute
DurationMinutes(seconds) == RoundHalfEven(seconds * 100, 60)

\* round(charging_rate * (duration_minutes / 60.0), 2), in hundredths of a kWh
EnergyKwh(rate, seconds) == RoundHalfEven(rate * seconds * 100, 3600)

\* the resolution at which the durations of SpecEnergy are drawn: datetime.now() carries
\* microseconds, the model hundredths of a second
TicksPerSecond == 100

\* round(duration_seconds / 60.0, 2) of a duration given in ticks, in hundredths of a minute
DurationMinutesAt(ticks) == RoundHalfEven(ticks * 100, 60 * TicksPerSecond)

\* the energy computed from the duration in minutes without the division by 60
EnergyKwhPerMinuteAt(rate, ticks) == RoundHalfEven(rate * ticks * 100, 60 * TicksPerSecond)

\* round(charging_rate * (duration_minutes / 60.0), 2) of a duration given in ticks, in
\* hundredths of a kWh
EnergyKwhAt(rate, ticks) == RoundHalfEven(rate * ticks * 100, 3600 * TicksPerSecond)

Abs(x) == IF x < 0 THEN -x ELSE x

----------------------------------------------------------------------------
(* Redis-backed monolith: records *)

get_default_charger ==
    [stored |-> FALSE, status |-> "Unknown", authorized |-> FALSE,
     transaction_id |-> NoTx, order_id |-> NoOrder, meter |-> 0]

NoOrderRec ==
    [exists |-> FALSE, charger_id |-> "", start_time |-> NoVal, end_time |-> NoVal,
     duration_minutes |-> NoVal, energy_kwh |-> NoVal, charging_rate |-> NoVal,
     status |-> "none"]

\* migrate_charger_data: an Available charger with a transaction id is repaired
migrate_charger_data(ch) ==
    IF ch.status = "Available" /\ ch.transaction_id # NoTx
    THEN [ch EXCEPT !.transaction_id = NoTx, !.order_id = NoOrder]
    ELSE ch

\* save_charger: hset, every Redis error swallowed
save_charger(store, c, ch, redis) ==
    IF redis = "up" THEN [store EXCEPT ![c] = [ch EXCEPT !.stored = TRUE]] ELSE store

\* load_chargers: the store after the write-back of every migrated record
load_chargers_store(store, redis) ==
    IF redis = "up"
    THEN [c \in ChargerIds |-> IF store[c].stored THEN migrate_charger_data(store[c]) ELSE store[c]]
    ELSE store

\* load_chargers: the list handed to the caller
load_chargers(store) ==
    [c \in ChargerIds |-> IF store[c].stored THEN migrate_charger_data(store[c]) ELSE store[c]]

\* create_order: hset of a fresh record, overwriting whatever the key held
create_order(ords, order_id, c, rate, t) ==
    [ords EXCEPT ![order_id] =
        [exists |-> TRUE, charger_id |-> c, start_time |-> t, end_time |-> NoVal,
         duration_minutes |-> NoVal, energy_kwh |-> NoVal, charging_rate |-> rate,
         status |-> "ongoing"]]

\* update_order
update_order(ords, order_id, end_time, duration_minutes, energy_kwh) ==
    IF ~ords[order_id].exists THEN ords
    ELSE [ords EXCEPT ![order_id].end_time = end_time,
                      ![order_id].duration_minutes = duration_minutes,
                      ![order_id].energy_kwh = energy_kwh,
                      ![order_id].status = "completed"]

\* update_active(charger_id, status=..., txn_id=...): the effect on the store.  The
\* cache active_chargers it maintains is written and never read, and is left out.
\* has_status is FALSE when the status argument is left at None.
update_active(store, c, has_status, status, txn_id, redis) ==
    LET repair == has_status /\ status = "Available" /\ txn_id = NoTx
        loaded == load_chargers(store)
        store1 == load_chargers_store(store, redis)
        store2 == IF loaded[c].stored /\ loaded[c].transaction_id # NoTx
                  THEN save_charger(store1, c,
                          [loaded[c] EXCEPT !.transaction_id = NoTx, !.order_id = NoOrder], redis)
                  ELSE store1
    IN IF repair THEN store2 ELSE store

----------------------------------------------------------------------------
(* Redis-backed monolith: the handlers.  A handler maps the state          *)
(* S = [chargers, orders] to an outcome: the new state, the local  *)
(* charger record as the handler left it, the response, and whether an     *)
(* exception left the handler.                                             *)

Out(store, ords, local, result, tx, raised) ==
    [chargers |-> store, orders |-> ords, local |-> local,
     result |-> result, transactionId |-> tx, raised |-> raised]

Raise(S, local) == Out(S.chargers, S.orders, local, "raised", NoVal, TRUE)

\* the charger the handler works on: next((c for c in load_chargers() ...), default)
LoadedCharger(store, c) ==
    IF load_chargers(store)[c].stored THEN load_chargers(store)[c] ELSE get_default_charger

\* BootNotification handled without setting the status
boot_notification_keeps_status(S, c, redis) ==
    LET store0 == load_chargers_store(S.chargers, redis)
        ch == LoadedCharger(S.chargers, c)
        ua == update_active(store0, c, TRUE, "Available", NoTx, redis)
    IN Out(save_charger(ua, c, ch, redis), S.orders, ch,
           "Accepted", NoVal, FALSE)

\* BootNotification: the answer "Accepted" is {status: Accepted, currentTime, interval: 30}
on_boot_notification(S, c, redis) ==
    LET store0 == load_chargers_store(S.chargers, redis)
        ch == [LoadedCharger(S.chargers, c) EXCEPT !.status = "Available"]
        ua == update_active(store0, c, TRUE, "Available", NoTx, redis)
    IN Out(save_charger(ua, c, ch, redis), S.orders, ch,
           "Accepted", NoVal, FALSE)

on_heartbeat(S, c, redis) ==
    LET store0 == load_chargers_store(S.chargers, redis)
        ch == LoadedCharger(S.chargers, c)
        ua == update_active(store0, c, FALSE, "", NoTx, redis)
    IN Out(save_charger(ua, c, ch, redis), S.orders, ch,
           "CurrentTime", NoVal, FALSE)

\* StatusNotification handled without the clean-up of the session
status_notification_keeps_session(S, c, msg, redis) ==
    LET store0 == load_chargers_store(S.chargers, redis)
        ch0 == LoadedCharger(S.chargers, c)
        new_status == IF msg.status = "" THEN "Unknown" ELSE msg.status
        ch == [ch0 EXCEPT !.status = new_status]
        ua == update_active(store0, c, TRUE, new_status, NoTx, redis)
    IN Out(save_charger(ua, c, ch, redis), S.orders, ch,
           "Empty", NoVal, FALSE)

on_status_notification(S, c, msg, redis) ==
    LET store0 == load_chargers_store(S.chargers, redis)
        ch0 == LoadedCharger(S.chargers, c)
        new_status == IF msg.status = "" THEN "Unknown" ELSE msg.status
        ch1 == [ch0 EXCEPT !.status = new_status]
        ch == IF new_status = "Available" /\ ch1.transaction_id # NoTx
              THEN [ch1 EXCEPT !.transaction_id = NoTx, !.order_id = NoOrder]
              ELSE ch1
        ua == update_active(store0, c, TRUE, new_status, NoTx, redis)
    IN Out(save_charger(ua, c, ch, redis), S.orders, ch,
           "Empty", NoVal, FALSE)

on_authorize(S, c, msg, redis) ==
    LET store0 == load_chargers_store(S.chargers, redis)
        ch == [LoadedCharger(S.chargers, c) EXCEPT !.authorized = (msg.idTag # "")]
    IN Out(save_charger(store0, c, ch, redis), S.orders, ch,
           IF msg.idTag # "" THEN "AuthAccepted" ELSE "AuthInvalid", NoVal, FALSE)

\* payload.get("transactionId") or int(datetime.now().timestamp())
StartTxId(msg, t) ==
    IF msg.transactionId = NoVal \/ msg.transactionId = 0 THEN Epoch(t) ELSE msg.transactionId

on_start_transaction(S, c, msg, t, redis) ==
    LET store0 == load_chargers_store(S.chargers, redis)
        tx_id == StartTxId(msg, t)
        ch1 == [LoadedCharger(S.chargers, c) EXCEPT !.transaction_id = tx_id, !.status = "Charging"]
        ords == create_order(S.orders, tx_id, c, DefaultChargingRate, t)
        ch == [ch1 EXCEPT !.order_id = tx_id]
        ua == update_active(store0, c, TRUE, "Charging", tx_id, redis)
    IN IF redis # "up" THEN Raise(S, ch1)
       ELSE Out(save_charger(ua, c, ch, redis), ords, ch,
                "Started", tx_id, FALSE)

on_stop_transaction(S, c, t, redis) ==
    LET store0 == load_chargers_store(S.chargers, redis)
        ch0 == LoadedCharger(S.chargers, c)
        tx_id == ch0.transaction_id
        order_id == ch0.order_id
        closing == order_id # NoOrder /\ S.orders[order_id].exists
                   /\ S.orders[order_id].status = "ongoing"
        seconds == t - S.orders[order_id].start_time
        ords == IF closing
                THEN update_order(S.orders, order_id, t, DurationMinutes(seconds),
                                  EnergyKwh(S.orders[order_id].charging_rate, seconds))
                ELSE S.orders
        ch == [ch0 EXCEPT !.transaction_id = NoTx, !.order_id = NoOrder, !.status = "Available"]
        ua == update_active(store0, c, TRUE, "Available", NoTx, redis)
    IN IF closing /\ redis # "up" THEN Raise(S, ch0)
       ELSE Out(save_charger(ua, c, ch, redis), ords, ch,
                "Stopped", tx_id, FALSE)

\* Firmware/DiagnosticsStatusNotification and DataTransfer: save and acknowledge
on_passthrough(S, c, msg, redis) ==
    LET store0 == load_chargers_store(S.chargers, redis)
        ch == LoadedCharger(S.chargers, c)
    IN Out(save_charger(store0, c, ch, redis), S.orders, ch,
           IF msg.action = "DataTransfer" THEN "DataAccepted" ELSE "Empty", NoVal, FALSE)

on_unknown_action(S, c, redis) ==
    Out(load_chargers_store(S.chargers, redis), S.orders,
        LoadedCharger(S.chargers, c), "UnknownAction", NoVal, FALSE)

\* MeterValues of handle_ocpp_message: meterValue[0].sampledValue[] with measurand
\* Energy.Active.Import.Register
on_meter_values(S, c, msg, redis) ==
    LET store0 == load_chargers_store(S.chargers, redis)
        ch0 == LoadedCharger(S.chargers, c)
        ch == [ch0 EXCEPT !.meter = msg.energy]
    IN IF msg.energy # NoVal
       THEN Out(save_charger(store0, c, ch, redis), S.orders, ch, "Empty", NoVal, FALSE)
       ELSE Out(store0, S.orders, ch0, "Empty", NoVal, FALSE)

\* MeterValues of ocpp_ws: int(payload.get("meter", session meter))
ws_meter_values(S, c, msg, redis) ==
    LET store0 == load_chargers_store(S.chargers, redis)
        ch0 == LoadedCharger(S.chargers, c)
        meter == IF msg.meter # NoVal THEN msg.meter ELSE ch0.meter
        ch == [ch0 EXCEPT !.meter = meter]
    IN Out(save_charger(store0, c, ch, redis), S.orders, ch, "Empty", NoVal, FALSE)

Dispatch(S, c, msg, t, redis, meter_handler) ==
    IF redis = "down" THEN Raise(S, get_default_charger)
    ELSE CASE msg.action = "BootNotification" -> on_boot_notification(S, c, redis)
           [] msg.action = "Heartbeat" -> on_heartbeat(S, c, redis)
           [] msg.action = "StatusNotification" -> on_status_notification(S, c, msg, redis)
           [] msg.action = "Authorize" -> on_authorize(S, c, msg, redis)
           [] msg.action = "StartTransaction" -> on_start_transaction(S, c, msg, t, redis)
           [] msg.action = "MeterValues" -> meter_handler
           [] msg.action = "StopTransaction" -> on_stop_transaction(S, c, t, redis)
           [] msg.action \in {"FirmwareStatusNotification", "DiagnosticsStatusNotification",
                              "DataTransfer"} -> on_passthrough(S, c, msg, redis)
           [] OTHER -> on_unknown_action(S, c, redis)

\* the unified handler installed in the pull and pub/sub adapters
handle_ocpp_message(S, c, msg, t, redis) ==
    Dispatch(S, c, msg, t, redis, on_meter_values(S, c, msg, redis))

\* the handling of one frame inside the receive loop of ocpp_ws
ocpp_ws_message(S, c, msg, t, redis) ==
    Dispatch(S, c, msg, t, redis, ws_meter_values(S, c, msg, redis))

\* one iteration of the receive loop with the exception handlers around it: the frame
\* written back, and whether the socket is still in charger_websockets afterwards.
\* except Exception answers InternalError, and finally pops the registry and closes.
ocpp_ws_loop(S, c, msg, t, redis) ==
    LET out == ocpp_ws_message(S, c, msg, t, redis)
    IN [out |-> out,
        frame |-> IF out.raised THEN "InternalError" ELSE out.result,
        attached |-> ~out.raised]

----------------------------------------------------------------------------
(* Redis-backed monolith: operator calls *)

\* POST /api/remoteStart
remote_start(S, c, attached, t, redis) ==
    LET store0 == load_chargers_store(S.chargers, redis)
        ch0 == LoadedCharger(S.chargers, c)
        tx_id == Epoch(t)
        ords == create_order(S.orders, tx_id, c, DefaultChargingRate, t)
        \* no socket: the transaction is simulated in the store
        sim == [ch0 EXCEPT !.status = "Charging", !.authorized = TRUE,
                           !.transaction_id = tx_id, !.order_id = tx_id]
        sim_store == save_charger(store0, c, sim, redis)
        ua == update_active(sim_store, c, TRUE, "Charging", tx_id, redis)
        \* socket attached: Authorize and StartTransaction frames are written to the
        \* charger, then the order is created and its id put into the session
        sent == [ch0 EXCEPT !.order_id = tx_id]
    IN IF redis # "up" THEN Raise(S, ch0)
       ELSE IF ~attached
       THEN Out(ua, ords, sim, "Simulated", tx_id, FALSE)
       ELSE Out(save_charger(store0, c, sent, redis), ords, sent,
                "StartSent", tx_id, FALSE)

\* POST /api/remoteStop
remote_stop(S, c, attached, t, redis) ==
    LET store0 == load_chargers_store(S.chargers, redis)
        ch0 == LoadedCharger(S.chargers, c)
        txn_id == ch0.transaction_id
        order_id == ch0.order_id
        closing == order_id # NoOrder /\ S.orders[order_id].exists
                   /\ S.orders[order_id].status = "ongoing"
        seconds == t - S.orders[order_id].start_time
        ords == IF closing
                THEN update_order(S.orders, order_id, t, DurationMinutes(seconds),
                                  EnergyKwh(S.orders[order_id].charging_rate, seconds))
                ELSE S.orders
        ch == [ch0 EXCEPT !.transaction_id = NoTx, !.authorized = FALSE,
                          !.order_id = NoOrder, !.status = "Available"]
        stopped == save_charger(store0, c, ch, redis)
        ua == update_active(stopped, c, TRUE, "Available", NoTx, redis)
    IN IF redis = "down" THEN Raise(S, ch0)
       ELSE IF ~attached
       THEN IF closing /\ redis # "up" THEN Raise(S, ch0)
            ELSE Out(ua, ords, ch, "StopSimulated", txn_id, FALSE)
       ELSE IF txn_id = NoTx \/ txn_id = 0
       THEN Out(store0, S.orders, ch0, "NoActiveTransaction", NoVal, FALSE)
       ELSE Out(store0, S.orders, ch0, "StopSent", txn_id, FALSE)

----------------------------------------------------------------------------
(* Database-backed modular handler (OCPPHandler): records.  The state      *)
(* D = [chargers, transactions, orders] is the committed content of the    *)
(* three tables.                                                           *)

NoDbCharger == [exists |-> FALSE, status |-> "Unknown", charging_rate |-> NoVal]

NoDbOrder ==
    [exists |-> FALSE, transaction_id |-> NoVal, charger_id |-> "", start_time |-> NoVal,
     end_time |-> NoVal, duration_minutes |-> NoVal, energy_kwh |-> NoVal,
     charging_rate |-> NoVal, total_cost |-> NoVal, status |-> "none"]

DbOut(chs, txs, ords, result, tx, raised) ==
    [chargers |-> chs, transactions |-> txs, orders |-> ords,
     result |-> result, transactionId |-> tx, raised |-> raised]

DbRaise(D) == DbOut(D.chargers, D.transactions, D.orders, "raised", NoVal, TRUE)

\* query(Transaction).filter(charger_id == c, transaction_id == tx_id).first():
\* the surrogate id of the row, 0 when there is none
FindTransaction(txs, c, tx_id) ==
    LET hits == {i \in 1..Len(txs) : txs[i].charger_id = c /\ txs[i].transaction_id = tx_id}
    IN IF hits = {} THEN 0 ELSE CHOOSE i \in hits : \A k \in hits : i <= k

\* query(Order).filter(Order.transaction_id == id).first(): the order id, NoOrder when none
FindOrderOfTransaction(ords, id) ==
    LET hits == {o \in TxIds : ords[o].exists /\ ords[o].transaction_id = id}
    IN IF hits = {} THEN NoOrder ELSE CHOOSE o \in hits : \A k \in hits : o <= k

handle_boot_notification(D, c) ==
    DbOut([D.chargers EXCEPT ![c] =
              IF D.chargers[c].exists THEN [D.chargers[c] EXCEPT !.status = "Available"]
              ELSE [exists |-> TRUE, status |-> "Available",
                    charging_rate |-> DefaultChargingRate]],
          D.transactions, D.orders, "Accepted", NoVal, FALSE)

handle_heartbeat(D, c) ==
    DbOut(D.chargers, D.transactions, D.orders, "CurrentTime", NoVal, FALSE)

handle_status_notification(D, c, msg) ==
    LET new_status == IF msg.status = "" THEN "Unknown" ELSE msg.status
    IN DbOut(IF D.chargers[c].exists
             THEN [D.chargers EXCEPT ![c].status = new_status] ELSE D.chargers,
             D.transactions, D.orders, "Empty", NoVal, FALSE)

handle_authorize(D, c, msg) ==
    DbOut(D.chargers, D.transactions, D.orders,
          IF msg.idTag # "" THEN "AuthAccepted" ELSE "AuthInvalid", NoVal, FALSE)

handle_start_transaction(D, c, msg, t) ==
    LET tx_id == StartTxId(msg, t)
        \* a Charger built here has no charging_rate until the insert applies the default
        rate == IF D.chargers[c].exists THEN D.chargers[c].charging_rate ELSE NoVal
        transaction == [charger_id |-> c, transaction_id |-> tx_id, start_time |-> t,
                        end_time |-> NoVal, duration_minutes |-> NoVal, energy_kwh |-> NoVal,
                        charging_rate |-> rate, total_cost |-> NoVal, status |-> "ongoing"]
        \* transaction.id is read before any flush: the order's reference is NULL
        order == [exists |-> TRUE, transaction_id |-> NoVal, charger_id |-> c,
                  start_time |-> t, end_time |-> NoVal, duration_minutes |-> NoVal,
                  energy_kwh |-> NoVal, charging_rate |-> rate, total_cost |-> NoVal,
                  status |-> "ongoing"]
        charger == [exists |-> TRUE, status |-> "Charging",
                    charging_rate |-> IF D.chargers[c].exists THEN D.chargers[c].charging_rate
                                      ELSE DefaultChargingRate]
    IN IF D.orders[tx_id].exists
       THEN DbRaise(D)      \* primary key order_<tx_id> taken: the commit fails and rolls back
       ELSE DbOut([D.chargers EXCEPT ![c] = charger], Append(D.transactions, transaction),
                  [D.orders EXCEPT ![tx_id] = order], "Started", tx_id, FALSE)

handle_stop_transaction(D, c, msg, t) ==
    LET tx_id == msg.transactionId
        id == FindTransaction(D.transactions, c, tx_id)
        row == D.transactions[id]
        seconds == t - row.start_time
        has_rate == row.charging_rate # NoVal /\ row.charging_rate # 0
        stopped == [row EXCEPT !.end_time = t, !.status = "completed",
                               !.duration_minutes = DurationMinutes(seconds),
                               !.energy_kwh = IF has_rate THEN EnergyKwh(row.charging_rate, seconds)
                                              ELSE row.energy_kwh]
        order_id == FindOrderOfTransaction(D.orders, id)
        ords == IF order_id = NoOrder THEN D.orders
                ELSE [D.orders EXCEPT ![order_id].end_time = stopped.end_time,
                                      ![order_id].duration_minutes = stopped.duration_minutes,
                                      ![order_id].energy_kwh = stopped.energy_kwh,
                                      ![order_id].status = "completed"]
        chs == IF D.chargers[c].exists
               THEN [D.chargers EXCEPT ![c].status = "Available"] ELSE D.chargers
    IN IF tx_id # NoVal /\ id # 0
       THEN DbOut(chs, [D.transactions EXCEPT ![id] = stopped], ords, "Stopped", tx_id, FALSE)
       ELSE DbOut(chs, D.transactions, D.orders, "Stopped", tx_id, FALSE)

\* MeterValues, Firmware/DiagnosticsStatusNotification, DataTransfer: no change to the
\* charger, transaction and order tables
handle_other(D, c, msg) ==
    DbOut(D.chargers, D.transactions, D.orders,
          IF msg.action = "DataTransfer" THEN "DataAccepted" ELSE "Empty", NoVal, FALSE)

\* OCPPHandler.handle_message behind the receive loop of ocpp_websocket_route
handle_message(D, c, msg, t, db_ok) ==
    IF ~db_ok THEN DbRaise(D)
    ELSE CASE msg.action = "BootNotification" -> handle_boot_notification(D, c)
           [] msg.action = "Heartbeat" -> handle_heartbeat(D, c)
           [] msg.action = "StatusNotification" -> handle_status_notification(D, c, msg)
           [] msg.action = "Authorize" -> handle_authorize(D, c, msg)
           [] msg.action = "StartTransaction" -> handle_start_transaction(D, c, msg, t)
           [] msg.action = "StopTransaction" -> handle_stop_transaction(D, c, msg, t)
           [] msg.action \in {"MeterValues", "FirmwareStatusNotification",
                              "DiagnosticsStatusNotification", "DataTransfer"} ->
                 handle_other(D, c, msg)
           [] OTHER -> DbOut(D.chargers, D.transactions, D.orders, "UnknownAction", NoVal, FALSE)

----------------------------------------------------------------------------
(* Initial state *)

----------------------------------------------------------------------------
(* TransportManager: choice of the adapter for an outbound message *)

TransportTypes == {"MQTT", "WEBSOCKET", "HTTP"}
NoTransport == "None"
transport_priority == << "MQTT", "WEBSOCKET", "HTTP" >>

\* the adapters whose send_message has a raising path: MQTTAdapter (publish refused),
\* WebSocketAdapter (send or receive error); HTTPAdapter.send_message only stores
RaisingTransports == {"MQTT", "WEBSOCKET"}

NoCall == [called |-> FALSE, charger |-> "", preferred |-> NoTransport, raises |-> {},
           adapters |-> {}, connected |-> {}, tried |-> << >>, result |-> "none"]

\* adapter.is_connected(charger_id) for each adapter type
is_connected(t, c, mqtt, ws, sessions) ==
    CASE t = "MQTT" -> c \in mqtt
      [] t = "WEBSOCKET" -> c \in ws
      [] OTHER -> c \in sessions

\* the for loop over transport_priority from position i on, `tried` so far
RECURSIVE tm_priority_loop(_, _, _, _, _)
tm_priority_loop(i, adapters, connected, raises, tried) ==
    IF i > Len(transport_priority)
    THEN IF "HTTP" \in adapters
         THEN [tried |-> Append(tried, "HTTP"), result |-> "HTTP"]
         ELSE [tried |-> tried, result |-> "ConnectionError"]
    ELSE LET t == transport_priority[i]
         IN IF t \in adapters /\ t \in connected
            THEN IF t \in raises
                 THEN tm_priority_loop(i + 1, adapters, connected, raises, Append(tried, t))
                 ELSE [tried |-> Append(tried, t), result |-> t]
            ELSE tm_priority_loop(i + 1, adapters, connected, raises, tried)

\* the priority loop with the socket adapter ahead of the pubsub adapter
tm_send_message_socket_first(adapters, connected, preferred, raises) ==
    IF "WEBSOCKET" \in adapters /\ "WEBSOCKET" \in connected /\ "WEBSOCKET" \notin raises
       /\ ~(preferred \in adapters /\ preferred \in connected /\ preferred \notin raises)
    THEN [tried |-> << "WEBSOCKET" >>, result |-> "WEBSOCKET"]
    ELSE IF preferred # NoTransport /\ preferred \in adapters /\ preferred \in connected
    THEN IF preferred \in raises
         THEN tm_priority_loop(1, adapters, connected, raises, << preferred >>)
         ELSE [tried |-> << preferred >>, result |-> preferred]
    ELSE tm_priority_loop(1, adapters, connected, raises, << >>)

\* TransportManager.send_message: which adapters' send_message are called, in order,
\* and whose result is returned ("ConnectionError" when the call raises)
tm_send_message(adapters, connected, preferred, raises) ==
    IF preferred # NoTransport /\ preferred \in adapters /\ preferred \in connected
    THEN IF preferred \in raises
         THEN tm_priority_loop(1, adapters, connected, raises, << preferred >>)
         ELSE [tried |-> << preferred >>, result |-> preferred]
    ELSE tm_priority_loop(1, adapters, connected, raises, << >>)

----------------------------------------------------------------------------
(* Remote commands over several nodes (ocpp_control, MessageRouter) *)

Nodes == {"A", "B"}
NoNode == "none"

\* what the charger does with a call written to its socket
ChargerAnswers == {"response", "timeout"}

\* OCPPMessageSender.send_call on a node whose ConnectionManager holds `held`
send_call(c, held, answer) ==
    IF c \notin held
    THEN [written |-> FALSE, result |-> "HTTP404"]
    ELSE [written |-> TRUE, result |-> answer]

\* connection_manager.is_connected of ocpp_control: the Redis key in distributed mode,
\* the node's own table otherwise
control_is_connected(distributed, c, n, key, dcm, cm) ==
    IF distributed THEN key[c] # NoNode ELSE c \in cm[n]

\* MessageRouter.send_to_charger: the route taken
send_to_charger(c, n, key, dcm) ==
    IF c \in dcm[n] THEN "local"
    ELSE IF key[c] # NoNode THEN "remote"
    ELSE "ChargerNotConnected"

\* remote_start / remote_stop of ocpp_control up to the choice of the sender
remote_route(distributed, c, n, key, dcm, cm) ==
    IF ~control_is_connected(distributed, c, n, key, dcm, cm)
    THEN "ChargerNotConnected"
    ELSE IF distributed THEN send_to_charger(c, n, key, dcm)
    ELSE "local"

\* a subscriber that takes every charger for its own
is_connected_anywhere(dcm, n, c) == TRUE

\* DistributedConnectionManager.is_connected_locally on node n
is_connected_locally(dcm, n, c) == c \in dcm[n]

\* MessageRouter.handle_routed_message(c, envelope) on a node: send_and_respond is
\* handed to asyncio.create_task, which needs a running event loop in the calling
\* thread; with one, the task sends the call and sets the response key
handle_routed_message(c, held, running_loop, answer) ==
    IF ~running_loop
    THEN [raised |-> TRUE, written |-> FALSE, responded |-> FALSE]
    ELSE [raised |-> FALSE, written |-> send_call(c, held, answer).written, responded |-> TRUE]

----------------------------------------------------------------------------
(* The socket route with handles: handshake, receive loop, outbound calls *)

SocketHandles == 1..MaxSockets
NoHandle == 0
LoopWaiter == 0     \* the receive loop in a waiter list; a call is there by its index

\* Two coroutines awaiting receive_text on one socket: the server either queues the
\* receivers and serves them in order, or refuses the second one with RuntimeError
RecvImpls == {"queue", "exclusive"}

\* the comma-separated items of the Sec-WebSocket-Protocol header a client may send
\* (<< >>: no header)
HeaderValues == {<< >>, << "ocpp1.6" >>, << "OCPP1.6" >>, << "ocpp2.0", " ocpp1.6 " >>}

\* the chargers that use the socket route in this specification
WsChargerIds == {"CP1"}

\* str.strip
strip(t) == IF t = " ocpp1.6 " THEN "ocpp1.6" ELSE t

\* requested = [p.strip() for p in requested_proto.split(",") if p.strip()]
requested(header) == {strip(header[i]) : i \in 1..Len(header)} \ {""}

\* a handshake that goes on whatever the client offers
subprotocol_any(header) == TRUE

\* "ocpp1.6" in requested
subprotocol_offered(header) == "ocpp1.6" \in requested(header)

NoSocket == [state |-> "unused", charger |-> "", header |-> << >>, close_code |-> NoVal,
             local |-> get_default_charger]

\* the registry left as it is
registry_keep(registry, c) == registry

\* charger_websockets.pop(id, None)
registry_pop(registry, c) == [registry EXCEPT ![c] = NoHandle]

NoResult == [kind |-> "none", frame |-> 0]

\* the frames of this specification: a Heartbeat request, and a response, which has no
\* "action" key
WsRequest == Msg("Heartbeat", "", "", NoVal, NoVal, NoVal)
WsResponseAsRequest == Msg("", "", "", NoVal, NoVal, NoVal)

\* s without its entries equal to x
Without(s, x) == SelectSeq(s, LAMBDA y : y # x)

\* no list read yet
NoSnapshot == [taken |-> FALSE, chargers |-> [c \in ChargerIds |-> get_default_charger],
               todo |-> {}]

InitCommon ==
    /\ chargers = [c \in ChargerIds |-> get_default_charger]
    /\ orders = [o \in TxIds |-> NoOrderRec]
    /\ charger_websockets = [c \in ChargerIds |-> FALSE]
    /\ ws_charger = [c \in ChargerIds |-> get_default_charger]
    /\ now = 0
    /\ steps = 0
    /\ db_chargers = [c \in ChargerIds |-> NoDbCharger]
    /\ db_transactions = << >>
    /\ db_orders = [o \in TxIds |-> NoDbOrder]
    /\ connections = {}
    /\ pending_requests = [c \in ChargerIds |-> << >>]
    /\ charger_sessions = {}
    /\ http_queued = [c \in ChargerIds |-> << >>]
    /\ http_handed = [c \in ChargerIds |-> << >>]
    /\ tm_adapters = {}
    /\ mqtt_connected = {}
    /\ ws_connections = {}
    /\ tm_last = NoCall
    /\ local_connections = [n \in Nodes |-> {}]
    /\ cm_connections = [n \in Nodes |-> {}]
    /\ connection_key = [c \in ChargerIds |-> NoNode]
    /\ route_coroutines = {}
    /\ route_inbox = [n \in Nodes |-> << >>]
    /\ response_keys = {}
    /\ relay_calls = << >>
    /\ ws_sockets = [h \in SocketHandles |-> NoSocket]
    /\ ws_registry = [c \in ChargerIds |-> NoHandle]
    /\ ws_waiters = [h \in SocketHandles |-> << >>]
    /\ ws_calls = << >>
    /\ ws_frames = << >>
    /\ adapter_calls = [c \in ChargerIds |-> "none"]
    /\ timed_order = NoOrderRec
    /\ hist_clock = 0
    /\ heartbeat_history = << >>
    /\ status_history = << >>
    /\ ws_accepted = << >>
    /\ ws_current = [c \in ChargerIds |-> NoHandle]
    /\ reader_snapshot = NoSnapshot

\* enable_distributed: bool = False
Init ==
    /\ InitCommon
    /\ enable_distributed = FALSE
    /\ recv_impl = "queue"

\* a deployment of several nodes, with either setting
InitRelay ==
    /\ InitCommon
    /\ enable_distributed \in BOOLEAN
    /\ recv_impl = "queue"

\* the monolith on either kind of socket server
InitWs ==
    /\ InitCommon
    /\ enable_distributed = FALSE
    /\ recv_impl \in RecvImpls

Step ==
    /\ steps < MaxSteps
    /\ steps' = steps + 1

RedisState == [chargers |-> chargers, orders |-> orders]

Apply(out) ==
    /\ chargers' = out.chargers
    /\ orders' = out.orders

----------------------------------------------------------------------------
(* Redis-backed monolith: actions *)

\* ocpp_ws up to the receive loop: accept, register, initialise the charger record
WsConnect(c, redis) ==
    /\ Step
    /\ ~charger_websockets[c]
    /\ redis # "down"       \* a failed read ends the coroutine, which unregisters again
    /\ LET store0 == load_chargers_store(chargers, redis)
           ch == LoadedCharger(chargers, c)
       IN /\ chargers' = IF chargers[c].stored THEN store0 ELSE save_charger(store0, c, ch, redis)
          /\ ws_charger' = [ws_charger EXCEPT ![c] = ch]
    /\ charger_websockets' = [charger_websockets EXCEPT ![c] = TRUE]
    /\ UNCHANGED << orders, now, db_vars, io_vars >>

\* one text frame received on the socket of charger c
WsMessage(c, msg, redis) ==
    /\ Step
    /\ charger_websockets[c]
    /\ LET loop == ocpp_ws_loop(RedisState, c, msg, now, redis)
       IN /\ charger_websockets' = [charger_websockets EXCEPT ![c] = loop.attached]
          /\ IF loop.out.raised
             THEN /\ ws_charger' = [ws_charger EXCEPT ![c] = get_default_charger]
                  /\ UNCHANGED << chargers, orders >>
             ELSE /\ Apply(loop.out)
                  /\ ws_charger' = [ws_charger EXCEPT ![c] = loop.out.local]
    /\ UNCHANGED << now, db_vars, io_vars >>

\* WebSocketDisconnect: the coroutine's last charger record is saved again
WsDisconnect(c, redis) ==
    /\ Step
    /\ charger_websockets[c]
    /\ chargers' = save_charger(chargers, c, ws_charger[c], redis)
    /\ charger_websockets' = [charger_websockets EXCEPT ![c] = FALSE]
    /\ ws_charger' = [ws_charger EXCEPT ![c] = get_default_charger]
    /\ UNCHANGED << orders, now, db_vars, io_vars >>

\* a message delivered by the pull or the pub/sub adapter (handle_incoming_message)
AdapterMessage(c, msg, redis) ==
    /\ Step
    /\ LET out == handle_ocpp_message(RedisState, c, msg, now, redis)
       IN IF out.raised
          THEN UNCHANGED << chargers, orders >>
          ELSE Apply(out)
    /\ UNCHANGED << charger_websockets, ws_charger, now, db_vars, io_vars >>

RemoteStart(c, redis) ==
    /\ Step
    /\ LET out == remote_start(RedisState, c, charger_websockets[c], now, redis)
       IN IF out.raised
          THEN UNCHANGED << chargers, orders >>
          ELSE Apply(out)
    /\ UNCHANGED << charger_websockets, ws_charger, now, db_vars, io_vars >>

RemoteStop(c, redis) ==
    /\ Step
    /\ LET out == remote_stop(RedisState, c, charger_websockets[c], now, redis)
       IN IF out.raised
          THEN UNCHANGED << chargers, orders >>
          ELSE Apply(out)
    /\ UNCHANGED << charger_websockets, ws_charger, now, db_vars, io_vars >>

\* GET /chargers
chargers_list ==
    /\ Step
    /\ chargers' = load_chargers_store(chargers, "up")
    /\ UNCHANGED << orders, charger_websockets, ws_charger, now, db_vars, io_vars >>

Tick ==
    /\ now < MaxTime
    /\ now' = now + 1
    /\ UNCHANGED << redis_vars, steps, db_vars, io_vars >>

Next ==
    \/ \E c \in ChargerIds, redis \in RedisModes : WsConnect(c, redis)
    \/ \E c \in ChargerIds, msg \in Messages, redis \in RedisModes : WsMessage(c, msg, redis)
    \/ \E c \in ChargerIds, redis \in RedisModes : WsDisconnect(c, redis)
    \/ \E c \in ChargerIds, msg \in Messages, redis \in RedisModes : AdapterMessage(c, msg, redis)
    \/ \E c \in ChargerIds, redis \in RedisModes : RemoteStart(c, redis)
    \/ \E c \in ChargerIds, redis \in RedisModes : RemoteStop(c, redis)
    \/ chargers_list
    \/ Tick

Spec == Init /\ [][Next]_vars


----------------------------------------------------------------------------
(* Database-backed modular route: actions *)

DbState == [chargers |-> db_chargers, transactions |-> db_transactions, orders |-> db_orders]

\* ocpp_websocket_route up to the receive loop
DbConnect(c) ==
    /\ Step
    /\ c \notin connections
    /\ connections' = connections \cup {c}
    /\ UNCHANGED << redis_vars, io_vars, now, db_chargers, db_transactions, db_orders >>

\* one text frame handled by OCPPHandler; an exception is answered with InternalError
\* and the loop goes on
DbMessage(c, msg, db_ok) ==
    /\ Step
    /\ c \in connections
    /\ msg.action = "StartTransaction" => Len(db_transactions) < MaxTxRows
    /\ LET out == handle_message(DbState, c, msg, now, db_ok)
       IN /\ db_chargers' = out.chargers
          /\ db_transactions' = out.transactions
          /\ db_orders' = out.orders
    /\ UNCHANGED << redis_vars, io_vars, now, connections >>

\* WebSocketDisconnect, finally: connection_manager.disconnect
DbDisconnect(c) ==
    /\ Step
    /\ c \in connections
    /\ connections' = connections \ {c}
    /\ UNCHANGED << redis_vars, io_vars, now, db_chargers, db_transactions, db_orders >>

NextDb ==
    \/ \E c \in ChargerIds : DbConnect(c)
    \/ \E c \in ChargerIds, msg \in Messages, db_ok \in BOOLEAN : DbMessage(c, msg, db_ok)
    \/ \E c \in ChargerIds : DbDisconnect(c)
    \/ Tick

SpecDb == Init /\ [][NextDb]_vars

----------------------------------------------------------------------------
(* Pull transport (HTTPAdapter).  An outbound message is {action, payload};   *)
(* the payload is a Python object, known to the adapter by its identity.      *)

OutboundActions == {"Reset", "RemoteStopTransaction"}
PayloadObjects == {"p1", "p2"}
OutboundMessages == [action : OutboundActions, payload : PayloadObjects]

NullMessage == [action |-> "null", payload |-> "null"]

\* the bodies a charger posts in this specification
PullPostMessages ==
    {m \in Messages : m.action \in {"Heartbeat", "StartTransaction"} /\ m.transactionId = NoVal}

\* request_id = f"{charger_id}_{action}_{id(payload)}"
request_id(c, action, payload) == << c, action, payload >>

\* self._pending_requests[charger_id][request_id] = {...}: a dict assignment, which
\* replaces the value of a key already present and appends a new key at the end
http_send_message(pending, c, action, payload) ==
    LET rid == request_id(c, action, payload)
        entry == [request_id |-> rid, action |-> action, payload |-> payload]
        hits == {i \in 1..Len(pending) : pending[i].request_id = rid}
    IN IF hits = {} THEN Append(pending, entry)
       ELSE [i \in 1..Len(pending) |-> IF i \in hits THEN entry ELSE pending[i]]

\* _get_pending_message: the first entry is removed and returned, None when there is none
get_pending_message(pending) ==
    IF pending = << >>
    THEN [pending |-> pending, message |-> NullMessage]
    ELSE [pending |-> Tail(pending),
          message |-> [action |-> pending[1].action, payload |-> pending[1].payload]]

\* HTTPAdapter.send_message called for charger c
HttpSend(c, m) ==
    /\ Step
    /\ Len(http_queued[c]) < MaxPending
    /\ pending_requests' = [pending_requests EXCEPT
                               ![c] = http_send_message(@, c, m.action, m.payload)]
    /\ http_queued' = [http_queued EXCEPT ![c] = Append(@, m)]
    /\ UNCHANGED << redis_vars, db_vars, ext_vars, now, charger_sessions, http_handed >>

\* handle_http_request, POST: the session is noted, the body goes to the unified
\* handler, and one pending message rides back with the response
handle_http_post(c, msg, redis) ==
    /\ charger_sessions' = charger_sessions \cup {c}
    /\ LET out == handle_ocpp_message(RedisState, c, msg, now, redis)
       IN IF out.raised
          THEN UNCHANGED << chargers, orders >>
          ELSE Apply(out)
    /\ LET got == get_pending_message(pending_requests[c])
       IN /\ pending_requests' = [pending_requests EXCEPT ![c] = got.pending]
          /\ http_handed' = [http_handed EXCEPT ![c] = Append(@, got.message)]
    /\ UNCHANGED << charger_websockets, ws_charger, db_vars, ext_vars, now, http_queued >>

HttpPost(c, msg, redis) ==
    /\ Step
    /\ handle_http_post(c, msg, redis)

\* handle_http_request, GET: a poll
HttpGet(c) ==
    /\ Step
    /\ LET got == get_pending_message(pending_requests[c])
       IN /\ pending_requests' = [pending_requests EXCEPT ![c] = got.pending]
          /\ http_handed' = [http_handed EXCEPT ![c] = Append(@, got.message)]
    /\ UNCHANGED << redis_vars, db_vars, ext_vars, now, charger_sessions, http_queued >>

\* the session lifetime named in is_connected: five minutes, in seconds
FreshnessWindow == 300

\* charger and operator stay silent for longer than the freshness window
PullIdle ==
    /\ Step
    /\ hist_clock' = hist_clock + FreshnessWindow + 1
    /\ UNCHANGED << redis_vars, db_vars, pull_vars, tm_vars, relay_vars, sock_vars, stop_vars,
                    calc_vars, conc_vars, heartbeat_history, status_history, now >>

NextPull ==
    \/ \E c \in ChargerIds, m \in OutboundMessages : HttpSend(c, m)
    \/ \E c \in ChargerIds, msg \in PullPostMessages, redis \in RedisModes : HttpPost(c, msg, redis)
    \/ \E c \in ChargerIds : HttpGet(c)
    \/ PullIdle

SpecPull == Init /\ [][NextPull]_vars

----------------------------------------------------------------------------
(* TransportManager: actions *)

TmStep ==
    /\ steps < MaxTmSteps
    /\ steps' = steps + 1

\* the outbound message of this specification
TmOutboundMessages == {[action |-> "Reset", payload |-> "p1"]}

\* the requests chargers send in this specification
TmInboundMessages == {m \in Messages : m.action = "Heartbeat"}

\* TransportManager.initialize(enabled_transports); an MQTT adapter whose start fails
\* is left out of the adapters
TmInitialize(enabled, mqtt_ok) ==
    /\ TmStep
    /\ tm_adapters = {}
    /\ tm_adapters' = IF mqtt_ok THEN enabled ELSE enabled \ {"MQTT"}
    /\ UNCHANGED << redis_vars, db_vars, pull_vars, late_vars, now, mqtt_connected, ws_connections, tm_last >>

\* TransportManager.shutdown: every adapter is stopped, which empties its tables
TmShutdown ==
    /\ TmStep
    /\ tm_adapters # {}
    /\ tm_adapters' = {}
    /\ mqtt_connected' = {}
    /\ ws_connections' = {}
    /\ charger_sessions' = {}
    /\ pending_requests' = [c \in ChargerIds |-> << >>]
    /\ http_queued' = [c \in ChargerIds |-> << >>]
    /\ http_handed' = [c \in ChargerIds |-> << >>]
    /\ UNCHANGED << redis_vars, db_vars, late_vars, now, tm_last >>

\* MQTTAdapter._on_message for a request of charger c: the charger is marked connected;
\* the handler runs when the callback can reach the event loop, and the error is
\* swallowed when it cannot
MqttMessage(c, msg, redis, handled) ==
    /\ TmStep
    /\ "MQTT" \in tm_adapters
    /\ mqtt_connected' = mqtt_connected \cup {c}
    /\ LET out == handle_ocpp_message(RedisState, c, msg, now, redis)
       IN IF handled /\ ~out.raised
          THEN Apply(out)
          ELSE UNCHANGED << chargers, orders >>
    /\ UNCHANGED << charger_websockets, ws_charger, db_vars, pull_vars, late_vars, now,
                    tm_adapters, ws_connections, tm_last >>

\* WebSocketAdapter.register_connection
WsAdapterRegister(c) ==
    /\ TmStep
    /\ "WEBSOCKET" \in tm_adapters
    /\ ws_connections' = ws_connections \cup {c}
    /\ UNCHANGED << redis_vars, db_vars, pull_vars, late_vars, now, tm_adapters, mqtt_connected, tm_last >>

\* WebSocketAdapter.unregister_connection
WsAdapterUnregister(c) ==
    /\ TmStep
    /\ c \in ws_connections
    /\ ws_connections' = ws_connections \ {c}
    /\ UNCHANGED << redis_vars, db_vars, pull_vars, late_vars, now, tm_adapters, mqtt_connected, tm_last >>

\* a POST of charger c on the pull transport while the manager runs
TmHttpPost(c, msg, redis) ==
    /\ TmStep
    /\ "HTTP" \in tm_adapters
    /\ handle_http_post(c, msg, redis)

\* TransportManager.send_message(c, m.action, m.payload, preferred); `raises` are the
\* adapters whose send_message raises in this call.  A message that reaches the pull
\* adapter is stored by it.
TmSend(c, m, preferred, raises) ==
    /\ TmStep
    /\ Len(http_queued[c]) < MaxPending
    /\ LET connected == {t \in TransportTypes :
                            is_connected(t, c, mqtt_connected, ws_connections, charger_sessions)}
           r == tm_send_message(tm_adapters, connected, preferred, raises)
           to_http == \E i \in 1..Len(r.tried) : r.tried[i] = "HTTP"
       IN /\ tm_last' = [called |-> TRUE, charger |-> c, preferred |-> preferred,
                         raises |-> raises, adapters |-> tm_adapters,
                         connected |-> connected, tried |-> r.tried, result |-> r.result]
          /\ IF to_http
             THEN /\ pending_requests' = [pending_requests EXCEPT
                                             ![c] = http_send_message(@, c, m.action, m.payload)]
                  /\ http_queued' = [http_queued EXCEPT ![c] = Append(@, m)]
             ELSE UNCHANGED << pending_requests, http_queued >>
    /\ UNCHANGED << redis_vars, db_vars, late_vars, now, charger_sessions, http_handed,
                    tm_adapters, mqtt_connected, ws_connections >>

NextTm ==
    \/ \E enabled \in (SUBSET TransportTypes) \ {{}}, mqtt_ok \in BOOLEAN :
          TmInitialize(enabled, mqtt_ok)
    \/ TmShutdown
    \/ \E c \in ChargerIds, msg \in TmInboundMessages, redis \in RedisModes, handled \in BOOLEAN :
          MqttMessage(c, msg, redis, handled)
    \/ \E c \in ChargerIds : WsAdapterRegister(c)
    \/ \E c \in ChargerIds : WsAdapterUnregister(c)
    \/ \E c \in ChargerIds, msg \in TmInboundMessages, redis \in RedisModes : TmHttpPost(c, msg, redis)
    \/ \E c \in ChargerIds, m \in TmOutboundMessages,
          preferred \in TransportTypes \cup {NoTransport}, raises \in SUBSET RaisingTransports :
          TmSend(c, m, preferred, raises)

SpecTm == Init /\ [][NextTm]_vars

----------------------------------------------------------------------------
(* Remote commands over several nodes: actions *)

relay_rest == << redis_vars, db_vars, pull_vars, tm_vars, sock_vars, stop_vars, calc_vars, hist_vars,
                 conc_vars,
                 now, steps >>

\* ocpp_websocket_route of node n up to its receive loop: connection_manager.connect
RouteConnect(n, c) ==
    /\ << n, c >> \notin route_coroutines
    /\ route_coroutines' = route_coroutines \cup {<< n, c >>}
    /\ IF enable_distributed
       THEN /\ local_connections' = [local_connections EXCEPT ![n] = @ \cup {c}]
            /\ connection_key' = [connection_key EXCEPT ![c] = n]
            /\ UNCHANGED cm_connections
       ELSE /\ cm_connections' = [cm_connections EXCEPT ![n] = @ \cup {c}]
            /\ UNCHANGED << local_connections, connection_key >>
    /\ UNCHANGED << relay_rest, enable_distributed, route_inbox, response_keys, relay_calls >>

\* the end of ocpp_websocket_route of node n (finally): connection_manager.disconnect
RouteDisconnect(n, c) ==
    /\ << n, c >> \in route_coroutines
    /\ route_coroutines' = route_coroutines \ {<< n, c >>}
    /\ IF enable_distributed
       THEN /\ local_connections' = [local_connections EXCEPT ![n] = @ \ {c}]
            /\ connection_key' = [connection_key EXCEPT ![c] = NoNode]
            /\ UNCHANGED cm_connections
       ELSE /\ cm_connections' = [cm_connections EXCEPT ![n] = @ \ {c}]
            /\ UNCHANGED << local_connections, connection_key >>
    /\ UNCHANGED << relay_rest, enable_distributed, route_inbox, response_keys, relay_calls >>

\* heartbeat_updater of the route of charger c on node n: update_last_seen rewrites the
\* record it finds under the key, whoever stored it, and renews its time to live
RouteRefresh(n, c) ==
    /\ enable_distributed
    /\ << n, c >> \in route_coroutines
    /\ connection_key' = [connection_key EXCEPT ![c] = IF @ # NoNode THEN @ ELSE NoNode]
    /\ UNCHANGED << relay_rest, enable_distributed, local_connections, cm_connections,
                    route_coroutines, route_inbox, response_keys, relay_calls >>

\* remote_start / remote_stop arriving at node n for charger c.  A local send runs to
\* its end here; a relayed one publishes its envelope to every subscriber and waits.
RemoteCommand(n, c, answer) ==
    /\ Len(relay_calls) < MaxCalls
    /\ LET id == Len(relay_calls) + 1
           route == remote_route(enable_distributed, c, n, connection_key,
                                 local_connections, cm_connections)
           sent == send_call(c, cm_connections[n], answer)
           call == [node |-> n, charger |-> c,
                    local |-> IF enable_distributed THEN c \in local_connections[n]
                              ELSE c \in cm_connections[n],
                    owner |-> IF enable_distributed THEN connection_key[c] ELSE NoNode,
                    route |-> route,
                    published |-> route = "remote",
                    written |-> IF route = "local" /\ sent.written THEN n ELSE NoNode,
                    handled_by |-> NoNode,
                    state |-> IF route = "remote" THEN "waiting" ELSE "done",
                    result |-> CASE route = "local" -> sent.result
                                 [] route = "remote" -> "none"
                                 [] OTHER -> "ChargerNotConnected"]
       IN /\ relay_calls' = Append(relay_calls, call)
          /\ route_inbox' = IF route = "remote"
                            THEN [m \in Nodes |-> Append(route_inbox[m], id)]
                            ELSE route_inbox
    /\ UNCHANGED << relay_rest, enable_distributed, local_connections, cm_connections,
                    connection_key, route_coroutines, response_keys >>

\* RedisMessageSubscriber._message_loop of node n reads one envelope, in its own thread
SubscriberMessage(n, answer) ==
    /\ route_inbox[n] # << >>
    /\ LET id == Head(route_inbox[n])
           c == relay_calls[id].charger
       IN /\ route_inbox' = [route_inbox EXCEPT ![n] = Tail(@)]
          /\ IF is_connected_locally(local_connections, n, c)
             THEN LET h == handle_routed_message(c, cm_connections[n], FALSE, answer)
                  IN /\ relay_calls' = [relay_calls EXCEPT
                                           ![id].handled_by = n,
                                           ![id].written = IF h.written THEN n ELSE @]
                     /\ response_keys' = IF h.responded THEN response_keys \cup {id}
                                         ELSE response_keys
             ELSE UNCHANGED << relay_calls, response_keys >>
    /\ UNCHANGED << relay_rest, enable_distributed, local_connections, cm_connections,
                    connection_key, route_coroutines >>

\* the polling loop of _send_remote for call id comes to its end: with the response
\* when the key is set, with the timeout result when the time has run out
SendRemoteReturn(id) ==
    /\ id \in 1..Len(relay_calls)
    /\ relay_calls[id].state = "waiting"
    /\ relay_calls' = [relay_calls EXCEPT
                          ![id].state = "done",
                          ![id].result = IF id \in response_keys THEN "relayed"
                                         ELSE "Timeout waiting for remote response"]
    /\ response_keys' = response_keys \ {id}
    /\ UNCHANGED << relay_rest, enable_distributed, local_connections, cm_connections,
                    connection_key, route_coroutines, route_inbox >>

NextRelay ==
    \/ \E n \in Nodes, c \in ChargerIds : RouteConnect(n, c)
    \/ \E n \in Nodes, c \in ChargerIds : RouteDisconnect(n, c)
    \/ \E n \in Nodes, c \in ChargerIds : RouteRefresh(n, c)
    \/ \E n \in Nodes, c \in ChargerIds, answer \in ChargerAnswers : RemoteCommand(n, c, answer)
    \/ \E n \in Nodes, answer \in ChargerAnswers : SubscriberMessage(n, answer)
    \/ \E id \in 1..MaxCalls : SendRemoteReturn(id)

SpecRelay == InitRelay /\ [][NextRelay]_vars

\* the same nodes, followed through fewer remote commands
RelayCommand(n, c, answer) ==
    /\ Len(relay_calls) < MaxEnvelopes
    /\ RemoteCommand(n, c, answer)

NextSubscriber ==
    \/ \E n \in Nodes, c \in ChargerIds : RouteConnect(n, c)
    \/ \E n \in Nodes, c \in ChargerIds : RouteDisconnect(n, c)
    \/ \E n \in Nodes, c \in ChargerIds : RouteRefresh(n, c)
    \/ \E n \in Nodes, c \in ChargerIds, answer \in ChargerAnswers : RelayCommand(n, c, answer)
    \/ \E n \in Nodes, answer \in ChargerAnswers : SubscriberMessage(n, answer)
    \/ \E id \in 1..MaxCalls : SendRemoteReturn(id)

SpecSubscriber == InitRelay /\ [][NextSubscriber]_vars

----------------------------------------------------------------------------
(* The socket route with handles: actions *)

sock_rest == << db_vars, pull_vars, tm_vars, relay_vars, stop_vars, calc_vars, hist_vars, conc_vars,
                now, steps,
                charger_websockets, ws_charger >>

\* the end of the coroutine of socket h (finally): the registry entry of its charger is
\* popped, the socket is closed, and every call waiting on it fails (its receive_text
\* raises, which send_ocpp_call turns into HTTP 500)
LoseSocket(h) ==
    LET c == ws_sockets[h].charger
    IN /\ ws_sockets' = [ws_sockets EXCEPT ![h].state = "lost"]
       /\ ws_registry' = registry_pop(ws_registry, c)
       /\ ws_waiters' = [ws_waiters EXCEPT ![h] = << >>]
       /\ ws_calls' = [k \in 1..Len(ws_calls) |->
                          IF ws_calls[k].handle = h /\ ws_calls[k].state = "waiting"
                          THEN [ws_calls[k] EXCEPT !.state = "done",
                                                   !.result = [kind |-> "Disconnected", frame |-> 0]]
                          ELSE ws_calls[k]]

\* ocpp_ws / ocpp_websocket_route from the handshake to the first receive_text
WsOpen(h, c, header, redis) ==
    /\ ws_sockets[h].state = "unused"
    /\ \A g \in SocketHandles : g < h => ws_sockets[g].state # "unused"
    /\ IF ~subprotocol_offered(header)
       THEN /\ ws_sockets' = [ws_sockets EXCEPT ![h] =
                                 [NoSocket EXCEPT !.state = "refused", !.charger = c,
                                                  !.header = header, !.close_code = 1002]]
            /\ UNCHANGED << chargers, orders, ws_registry, ws_waiters, ws_calls >>
       ELSE IF redis = "down"
       THEN \* registered, then load_chargers raises: except, finally
            /\ ws_sockets' = [ws_sockets EXCEPT ![h] =
                                 [NoSocket EXCEPT !.state = "lost", !.charger = c,
                                                  !.header = header]]
            /\ ws_registry' = registry_pop([ws_registry EXCEPT ![c] = h], c)
            /\ UNCHANGED << chargers, orders, ws_waiters, ws_calls >>
       ELSE LET store0 == load_chargers_store(chargers, redis)
                ch == LoadedCharger(chargers, c)
            IN /\ chargers' = IF chargers[c].stored THEN store0
                              ELSE save_charger(store0, c, ch, redis)
               /\ ws_sockets' = [ws_sockets EXCEPT ![h] =
                                    [NoSocket EXCEPT !.state = "open", !.charger = c,
                                                     !.header = header, !.local = ch]]
               /\ ws_registry' = [ws_registry EXCEPT ![c] = h]
               /\ ws_waiters' = [ws_waiters EXCEPT ![h] = << LoopWaiter >>]
               /\ UNCHANGED << orders, ws_calls >>
    /\ UNCHANGED << sock_rest, recv_impl, ws_frames >>

\* the charger on socket h sends a text frame: a request, or the response to call `of`.
\* The oldest waiting receiver gets it: the receive loop dispatches it and answers, a
\* waiting send_ocpp_call returns it.
WsFrameIn(h, kind, of, redis) ==
    /\ ws_sockets[h].state = "open"
    /\ Len(ws_frames) < MaxFrames
    /\ \/ kind = "request" /\ of = 0
       \/ /\ kind = "response"
          /\ of \in 1..Len(ws_calls)
          /\ ws_calls[of].handle = h
          /\ \A i \in 1..Len(ws_frames) : ws_frames[i].of # of
    /\ LET c == ws_sockets[h].charger
           first == Head(ws_waiters[h])
           id == Len(ws_frames) + 1
           in_time == kind = "response" /\ ws_calls[of].state = "waiting"
           msg == IF kind = "request" THEN WsRequest ELSE WsResponseAsRequest
           loop == ocpp_ws_loop(RedisState, c, msg, now, redis)
       IN IF first = LoopWaiter
          THEN /\ ws_frames' = Append(ws_frames, [handle |-> h, kind |-> kind, of |-> of,
                                                  in_time |-> in_time, to |-> LoopWaiter])
               /\ IF loop.out.raised
                  THEN /\ LoseSocket(h)
                       /\ UNCHANGED << chargers, orders >>
                  ELSE /\ Apply(loop.out)
                       /\ ws_sockets' = [ws_sockets EXCEPT ![h].local = loop.out.local]
                       /\ ws_waiters' = [ws_waiters EXCEPT ![h] = Append(Tail(@), LoopWaiter)]
                       /\ UNCHANGED << ws_registry, ws_calls >>
          ELSE /\ ws_frames' = Append(ws_frames, [handle |-> h, kind |-> kind, of |-> of,
                                                  in_time |-> in_time, to |-> first])
               /\ ws_calls' = [ws_calls EXCEPT ![first].state = "done",
                                               ![first].result = [kind |-> "frame", frame |-> id]]
               /\ ws_waiters' = [ws_waiters EXCEPT ![h] = Tail(@)]
               /\ UNCHANGED << chargers, orders, ws_sockets, ws_registry >>
    /\ UNCHANGED << sock_rest, recv_impl >>

\* WebSocketDisconnect in the receive loop of socket h
WsLost(h, redis) ==
    /\ ws_sockets[h].state = "open"
    /\ chargers' = save_charger(chargers, ws_sockets[h].charger, ws_sockets[h].local, redis)
    /\ LoseSocket(h)
    /\ UNCHANGED << sock_rest, orders, recv_impl, ws_frames >>

\* send_ocpp_call(c, ...) up to its wait for the answer
WsSendCall(c) ==
    /\ Len(ws_calls) < MaxWsCalls
    /\ LET h == ws_registry[c]
           k == Len(ws_calls) + 1
           call == [charger |-> c, handle |-> h, state |-> "waiting", result |-> NoResult,
                    lost_before |-> {g \in SocketHandles : ws_sockets[g].state = "lost"}]
       IN IF h = NoHandle
          THEN /\ ws_calls' = Append(ws_calls, [call EXCEPT !.state = "done",
                                        !.result = [kind |-> "HTTP404", frame |-> 0]])
               /\ UNCHANGED ws_waiters
          ELSE IF recv_impl = "exclusive" /\ ws_waiters[h] # << >>
          THEN \* the frame is written, then receive_text raises RuntimeError
               /\ ws_calls' = Append(ws_calls, [call EXCEPT !.state = "done",
                                        !.result = [kind |-> "HTTP500", frame |-> 0]])
               /\ UNCHANGED ws_waiters
          ELSE /\ ws_calls' = Append(ws_calls, call)
               /\ ws_waiters' = [ws_waiters EXCEPT ![h] = Append(@, k)]
    /\ UNCHANGED << sock_rest, chargers, orders, recv_impl, ws_sockets, ws_registry, ws_frames >>

\* asyncio.TimeoutError in call k
WsCallTimeout(k) ==
    /\ k \in 1..Len(ws_calls)
    /\ ws_calls[k].state = "waiting"
    /\ ws_calls' = [ws_calls EXCEPT ![k].state = "done",
                                    ![k].result = [kind |-> "Timeout", frame |-> 0]]
    /\ ws_waiters' = [ws_waiters EXCEPT ![ws_calls[k].handle] = Without(@, k)]
    /\ UNCHANGED << sock_rest, chargers, orders, recv_impl, ws_sockets, ws_registry, ws_frames >>

NextWs ==
    \/ \E h \in SocketHandles, c \in WsChargerIds, header \in HeaderValues, redis \in RedisModes :
          WsOpen(h, c, header, redis)
    \/ \E h \in SocketHandles, kind \in {"request", "response"}, of \in 0..MaxWsCalls,
          redis \in RedisModes : WsFrameIn(h, kind, of, redis)
    \/ \E h \in SocketHandles, redis \in RedisModes : WsLost(h, redis)
    \/ \E c \in WsChargerIds : WsSendCall(c)
    \/ \E k \in 1..MaxWsCalls : WsCallTimeout(k)

SpecWs == InitWs /\ [][NextWs]_vars

----------------------------------------------------------------------------
(* The socket registry over reconnects: ocpp_ws may be entered again for a    *)
(* charger id while the coroutine of its previous socket has not ended.       *)

conc_rest == << db_vars, pull_vars, tm_vars, relay_vars, sock_vars, stop_vars, calc_vars,
                hist_vars, charger_websockets, ws_charger, orders, reader_snapshot, now, steps >>

\* ocpp_ws from accept to the first receive_text: charger_websockets[id] = ws, and the
\* charger record is read or created
SockAccept(c) ==
    /\ Len(ws_accepted) < MaxAccepts
    /\ LET store0 == load_chargers_store(chargers, "up")
           ch == LoadedCharger(chargers, c)
       IN /\ chargers' = IF chargers[c].stored THEN store0
                         ELSE save_charger(store0, c, ch, "up")
          /\ ws_accepted' = Append(ws_accepted, [charger |-> c, live |-> TRUE, local |-> ch])
    /\ ws_current' = [ws_current EXCEPT ![c] = Len(ws_accepted) + 1]
    /\ UNCHANGED conc_rest

\* the coroutine of accepted socket i ends (WebSocketDisconnect, then finally): its
\* charger record is saved, charger_websockets.pop(id, None), and the socket is closed
SockFinish(i) ==
    /\ i \in 1..Len(ws_accepted)
    /\ ws_accepted[i].live
    /\ chargers' = save_charger(chargers, ws_accepted[i].charger, ws_accepted[i].local, "up")
    /\ ws_accepted' = [ws_accepted EXCEPT ![i].live = FALSE]
    /\ ws_current' = registry_pop(ws_current, ws_accepted[i].charger)
    /\ UNCHANGED conc_rest

NextReconnect ==
    \/ \E c \in ChargerIds : SockAccept(c)
    \/ \E i \in 1..MaxAccepts : SockFinish(i)

SpecReconnect == Init /\ [][NextReconnect]_vars

----------------------------------------------------------------------------
(* A reader beside the handlers: GET /chargers is a plain function, which the *)
(* server runs in a worker thread, and load_chargers reads the whole hash     *)
(* first and then writes every record back, one hset at a time.  The handlers *)
(* run on the event loop meanwhile.                                           *)

reader_rest == << db_vars, pull_vars, tm_vars, relay_vars, sock_vars, stop_vars, calc_vars,
                 hist_vars, charger_websockets, ws_charger, ws_accepted, ws_current, now >>

\* load_chargers in the worker thread, hgetall: the hash as it is now
ReaderLoad ==
    /\ ~reader_snapshot.taken
    /\ reader_snapshot' = [taken |-> TRUE, chargers |-> chargers,
                           todo |-> {c \in ChargerIds : chargers[c].stored}]
    /\ UNCHANGED << reader_rest, redis_vars, steps >>

\* load_chargers in the worker thread, one turn of its loop: the record read for charger
\* c is migrated and saved; after the last one the list is returned
ReaderSave(c) ==
    /\ reader_snapshot.taken
    /\ c \in reader_snapshot.todo
    /\ chargers' = save_charger(chargers, c, migrate_charger_data(reader_snapshot.chargers[c]),
                                "up")
    /\ reader_snapshot' = IF reader_snapshot.todo = {c} THEN NoSnapshot
                          ELSE [reader_snapshot EXCEPT !.todo = @ \ {c}]
    /\ UNCHANGED << reader_rest, orders, steps >>

\* the reader finds an empty hash and returns
ReaderReturn ==
    /\ reader_snapshot.taken
    /\ reader_snapshot.todo = {}
    /\ reader_snapshot' = NoSnapshot
    /\ UNCHANGED << reader_rest, redis_vars, steps >>

\* handle_ocpp_message on the event loop: one message of charger c, from its
\* load_chargers to its save_charger
HandlerMessage(c, msg) ==
    /\ steps < MaxReaderSteps
    /\ steps' = steps + 1
    /\ Apply(handle_ocpp_message(RedisState, c, msg, now, "up"))
    /\ UNCHANGED << reader_rest, reader_snapshot >>

NextReader ==
    \/ ReaderLoad
    \/ \E c \in ChargerIds : ReaderSave(c)
    \/ ReaderReturn
    \/ \E c \in ChargerIds, msg \in StatusMessages : HandlerMessage(c, msg)

SpecReader == Init /\ [][NextReader]_vars

----------------------------------------------------------------------------
(* TransportManager.shutdown while calls are in flight.  A call of           *)
(* WebSocketAdapter.send_message is "waiting" between the frame it sends and *)
(* the end of its wait_for(ws.receive_text(), timeout).                      *)

\* how a call of WebSocketAdapter.send_message ends: the response frame, the timeout of
\* wait_for, or the exception of receive_text on a closed socket, raised again
CallOutcomes == {"response", "timeout", "raised"}

\* WebSocketAdapter.send_message up to its wait: the socket is found and the frame sent
WsAdapterSendBegin(c) ==
    /\ TmStep
    /\ "WEBSOCKET" \in tm_adapters
    /\ c \in ws_connections
    /\ adapter_calls[c] # "waiting"
    /\ adapter_calls' = [adapter_calls EXCEPT ![c] = "waiting"]
    /\ UNCHANGED << redis_vars, db_vars, pull_vars, tm_vars, relay_vars, sock_vars, calc_vars,
                    hist_vars, conc_vars, now >>

\* the end of the wait: a socket still registered answers or stays silent; one that
\* stop() or the route has closed makes receive_text raise, or stays silent
WsAdapterSendEnd(c, outcome) ==
    /\ adapter_calls[c] = "waiting"
    /\ outcome \in (IF c \in ws_connections THEN {"response", "timeout"}
                    ELSE {"raised", "timeout"})
    /\ adapter_calls' = [adapter_calls EXCEPT ![c] = outcome]
    /\ UNCHANGED << redis_vars, db_vars, pull_vars, tm_vars, relay_vars, sock_vars, calc_vars,
                    hist_vars, conc_vars, now, steps >>

NextStop ==
    \/ NextTm
    \/ \E c \in ChargerIds : WsAdapterSendBegin(c)
    \/ \E c \in ChargerIds, outcome \in CallOutcomes : WsAdapterSendEnd(c, outcome)

SpecStop == Init /\ [][NextStop]_vars

----------------------------------------------------------------------------
(* The figures of a completed order: one order is created with a charging   *)
(* rate and completed after a duration, as StartTransaction and             *)
(* StopTransaction do.  Times are in ticks here.                            *)

\* charging rates in kW: the default, and rates an operator can store for a charger
ChargingRates == {DefaultChargingRate, 22, 60, 150}

\* StartTransaction: create_order with the charging rate of the charger
StartTimedOrder(rate) ==
    /\ ~timed_order.exists
    /\ timed_order' = create_order([o \in {1} |-> NoOrderRec], 1, "CP1", rate, 0)[1]
    /\ UNCHANGED << redis_vars, db_vars, pull_vars, tm_vars, relay_vars, sock_vars, stop_vars,
                    hist_vars, conc_vars, now, steps >>

\* StopTransaction after `ticks`: update_order with the rounded duration and energy
StopTimedOrder(ticks) ==
    /\ timed_order.exists
    /\ timed_order.status = "ongoing"
    /\ timed_order' = update_order([o \in {1} |-> timed_order], 1, ticks,
                                   DurationMinutesAt(ticks - timed_order.start_time),
                                   EnergyKwhAt(timed_order.charging_rate,
                                               ticks - timed_order.start_time))[1]
    /\ UNCHANGED << redis_vars, db_vars, pull_vars, tm_vars, relay_vars, sock_vars, stop_vars,
                    hist_vars, conc_vars, now, steps >>

NextEnergy ==
    \/ \E rate \in ChargingRates : StartTimedOrder(rate)
    \/ \E ticks \in 0..MaxTicks : StopTimedOrder(ticks)

SpecEnergy == Init /\ [][NextEnergy]_vars

----------------------------------------------------------------------------
(* History recorder (history_recorder.py): heartbeat events.  A missing     *)
(* interval (None) is NoVal.                                                *)

\* the seconds that pass between two heartbeats in this specification
HeartbeatGaps == {1, 35, 36, 60, 61}

\* the health band with the first threshold exclusive
health_status_exclusive(interval_seconds) ==
    IF interval_seconds < 35 THEN "normal"
    ELSE IF interval_seconds <= 60 THEN "warning"
    ELSE "abnormal"

\* record_heartbeat, lines 35-40: the health band of an interval
health_status(interval_seconds) ==
    IF interval_seconds <= 35 THEN "normal"
    ELSE IF interval_seconds <= 60 THEN "warning"
    ELSE "abnormal"

\* the rows of charger c, as indices into the table
RowsOf(history, c) == {i \in 1..Len(history) : history[i].charger_id = c}

\* query(...).order_by(timestamp.desc()).first(): the newest row of charger c, 0 when none
LastRow(history, c) ==
    IF RowsOf(history, c) = {} THEN 0
    ELSE CHOOSE i \in RowsOf(history, c) :
            \A k \in RowsOf(history, c) :
                \/ history[k].timestamp < history[i].timestamp
                \/ (history[k].timestamp = history[i].timestamp /\ k <= i)

\* get_last_heartbeat_time: NoVal for None
get_last_heartbeat_time(history, c) ==
    IF LastRow(history, c) = 0 THEN NoVal ELSE history[LastRow(history, c)].timestamp

\* record_heartbeat(charger_id, previous_heartbeat_time) at current_time, the session
\* working: one row is added
record_heartbeat(history, c, previous_heartbeat_time, current_time) ==
    LET interval_seconds == IF previous_heartbeat_time = NoVal THEN NoVal
                            ELSE current_time - previous_heartbeat_time
    IN Append(history,
              [charger_id |-> c, timestamp |-> current_time,
               health_status |-> IF previous_heartbeat_time = NoVal THEN "normal"
                                 ELSE health_status(interval_seconds),
               interval_seconds |-> interval_seconds])

\* a Heartbeat of charger c through handle_ocpp_message, `gap` seconds after the last
\* event of the recorder: the charger is saved and the heartbeat recorded
HeartbeatMessage(c, gap) ==
    /\ steps < MaxHeartbeats
    /\ steps' = steps + 1
    /\ hist_clock' = hist_clock + gap
    /\ Apply(on_heartbeat(RedisState, c, "up"))
    /\ heartbeat_history' = record_heartbeat(heartbeat_history, c,
                                get_last_heartbeat_time(heartbeat_history, c), hist_clock')
    /\ UNCHANGED << charger_websockets, ws_charger, db_vars, pull_vars, tm_vars, relay_vars,
                    sock_vars, stop_vars, calc_vars, conc_vars, status_history, now >>

NextHeartbeat ==
    \E c \in ChargerIds, gap \in HeartbeatGaps : HeartbeatMessage(c, gap)

SpecHeartbeat == Init /\ [][NextHeartbeat]_vars

----------------------------------------------------------------------------
(* History recorder (history_recorder.py): status events *)

\* record_status_change(charger_id, new_status, previous_status) at current_time, the
\* session working: one row is added, with the time since the charger's last row
record_status_change(history, c, new_status, previous_status, current_time) ==
    LET last == LastRow(history, c)
    IN Append(history,
              [charger_id |-> c, status |-> new_status, previous_status |-> previous_status,
               timestamp |-> current_time,
               duration_seconds |-> IF previous_status # "" /\ last # 0
                                    THEN current_time - history[last].timestamp
                                    ELSE NoVal])

\* the history after handle_ocpp_message has handled msg of charger c: only the
\* StatusNotification branch records, and only when the status differs
status_history_after(history, S, c, msg, current_time) ==
    LET previous_status == LoadedCharger(S.chargers, c).status
        new_status == IF msg.status = "" THEN "Unknown" ELSE msg.status
    IN IF msg.action = "StatusNotification" /\ previous_status # new_status
       THEN record_status_change(history, c, new_status, previous_status, current_time)
       ELSE history

\* one message of charger c through handle_ocpp_message, a second after the last one
StatusAdapterMessage(c, msg) ==
    /\ steps < MaxStatusSteps
    /\ steps' = steps + 1
    /\ hist_clock' = hist_clock + 1
    /\ Apply(handle_ocpp_message(RedisState, c, msg, now, "up"))
    /\ status_history' = status_history_after(status_history, RedisState, c, msg, hist_clock')
    /\ UNCHANGED << charger_websockets, ws_charger, db_vars, pull_vars, tm_vars, relay_vars,
                    sock_vars, stop_vars, calc_vars, conc_vars, heartbeat_history, now >>

NextStatus ==
    \E c \in ChargerIds, msg \in StatusMessages : StatusAdapterMessage(c, msg)

SpecStatus == Init /\ [][NextStatus]_vars

----------------------------------------------------------------------------
(* Properties of the Redis-backed monolith, checked under Spec *)

StartMessages == {m \in Messages : m.action = "StartTransaction"}

StatusAvailable == Msg("StatusNotification", "Available", "", NoVal, NoVal, NoVal)

\* the ongoing orders of charger c in the ledger
OngoingOrders(c) ==
    {o \in TxIds : orders[o].exists /\ orders[o].charger_id = c /\ orders[o].status = "ongoing"}

\* C1: after any sequence of inbound messages, RemoteStart and RemoteStop calls, every
\* charger has at most one ongoing transaction/order in the ledger.
C1_AtMostOneOngoing ==
    \A c \in ChargerIds : Cardinality(OngoingOrders(c)) <= 1

\* C2: a stored charger whose status is Available holds neither a session transaction id
\* nor a session order id.
C2_AvailableHasNoSession ==
    \A c \in ChargerIds :
        chargers[c].stored /\ chargers[c].status = "Available" =>
            chargers[c].transaction_id = NoTx /\ chargers[c].order_id = NoOrder

\* C3: a stored charger's session holds a transaction id exactly when it holds an order id.
C3_TxIdIffOrderId ==
    \A c \in ChargerIds :
        chargers[c].stored =>
            (chargers[c].transaction_id # NoTx <=> chargers[c].order_id # NoOrder)

\* C4: a StartTransaction for a charger whose session already holds a live transaction is
\* answered with status ConcurrentTx, creates no second record, and leaves the session's
\* transaction id and order id as they were.
C4_ConcurrentStartRejected ==
    \A c \in ChargerIds, msg \in StartMessages :
        LET ch0 == LoadedCharger(chargers, c)
            out == handle_ocpp_message(RedisState, c, msg, now, "up")
        IN ch0.stored /\ ch0.transaction_id # NoTx =>
              /\ out.result = "ConcurrentTx"
              /\ out.orders = orders
              /\ out.chargers[c].transaction_id = ch0.transaction_id
              /\ out.chargers[c].order_id = ch0.order_id

C8_MeterNonDecreasing ==
    [][\A c \in ChargerIds :
          (chargers[c].transaction_id # NoTx
           /\ chargers'[c].transaction_id = chargers[c].transaction_id)
          => chargers'[c].meter >= chargers[c].meter]_vars

\* C9: a message of a known charger leaves the same status, session and order ledger, with
\* the same answer, whether the socket loop or the handler of the pull and pub/sub
\* adapters processes it.
C9_TransportsAgree ==
    \A c \in ChargerIds, msg \in Messages :
        LET sock == ocpp_ws_message(RedisState, c, msg, now, "up")
            unified == handle_ocpp_message(RedisState, c, msg, now, "up")
        IN chargers[c].stored =>
              /\ sock.chargers = unified.chargers
              /\ sock.orders = unified.orders
              /\ sock.result = unified.result

\* C10: when a Redis read or write fails while a frame is handled, the charger is still
\* answered as it is when Redis works, and its socket stays in the registry.
C10_FailureKeepsConnection ==
    \A c \in ChargerIds, msg \in Messages, redis \in RedisModes \ {"up"} :
        LET loop == ocpp_ws_loop(RedisState, c, msg, now, redis)
            normal == ocpp_ws_loop(RedisState, c, msg, now, "up")
        IN charger_websockets[c] /\ msg.action \in HandledActions =>
              /\ loop.attached
              /\ loop.frame = normal.frame

\* C18: when a charger's socket is lost (a disconnect, or an error that ends its receive
\* loop) the stored status of the charger becomes Offline.
C18_SocketLossSetsOffline ==
    [][\A c \in ChargerIds :
          (charger_websockets[c] /\ ~charger_websockets'[c])
          => (chargers'[c].stored /\ chargers'[c].status = "Offline")]_vars

\* C23: a message whose action is not one of the ten handled actions is answered
\* UnknownAction by the socket loop and by the handler of the pull and pub/sub adapters,
\* and leaves every charger's status and session and every order as they were.
C23_UnknownActionChangesNothing ==
    \A c \in ChargerIds, msg \in Messages :
        LET sock == ocpp_ws_loop(RedisState, c, msg, now, "up")
            unified == handle_ocpp_message(RedisState, c, msg, now, "up")
        IN msg.action \notin HandledActions =>
              /\ sock.frame = "UnknownAction"
              /\ unified.result = "UnknownAction"
              /\ sock.out.chargers = chargers /\ sock.out.orders = orders
              /\ unified.chargers = chargers /\ unified.orders = orders

BootMessage == Msg("BootNotification", "", "", NoVal, NoVal, NoVal)

\* the charger table with the row of charger c replaced by one of status st
DbWithStatus(c, st) ==
    [DbState EXCEPT !.chargers[c] =
        [exists |-> TRUE, status |-> st, charging_rate |-> DefaultChargingRate]]

\* the database-backed handler answers the BootNotification of charger c in state D with
\* Accepted and leaves the row of c Available
DbBootAccepted(D, c) ==
    LET db == handle_message(D, c, BootMessage, now, TRUE)
    IN /\ db.result = "Accepted" /\ ~db.raised
       /\ db.chargers[c].exists /\ db.chargers[c].status = "Available"

StopMessages == {m \in Messages : m.action = "StopTransaction"}

\* C28: for a charger in a transaction, a StopTransaction that carries a transactionId
\* completes the transaction of that id on that charger and returns that id; one that
\* carries none completes the active transaction of the session and returns its id; no
\* other transaction is completed.
C28_StopCompletesNamedTransaction ==
    \A c \in ChargerIds, msg \in StopMessages :
        LET out == handle_ocpp_message(RedisState, c, msg, now, "up")
            sock == ocpp_ws_message(RedisState, c, msg, now, "up")
            named == IF msg.transactionId # NoVal THEN msg.transactionId
                     ELSE LoadedCharger(chargers, c).transaction_id
        IN LoadedCharger(chargers, c).transaction_id # NoTx =>
              /\ out.transactionId = named
              /\ sock.transactionId = named
              /\ \A o \in DOMAIN orders :
                    (out.orders[o] # orders[o] \/ sock.orders[o] # orders[o])
                    => (o = named /\ orders[o].charger_id = c)

\* C29: a StopTransaction, or a RemoteStop, for a charger that has no ongoing transaction
\* succeeds and changes nothing: the status of the charger (Faulted, say), its session
\* and every order stay as they were.
C29_StopWithoutTransactionIsNoOp ==
    \A c \in ChargerIds, msg \in StopMessages :
        LET ch0 == LoadedCharger(chargers, c)
            out == handle_ocpp_message(RedisState, c, msg, now, "up")
            sock == ocpp_ws_message(RedisState, c, msg, now, "up")
            remote == remote_stop(RedisState, c, charger_websockets[c], now, "up")
        IN (ch0.stored /\ ch0.transaction_id = NoTx /\ ch0.order_id = NoOrder) =>
              /\ out.result = "Stopped" /\ sock.result = "Stopped"
              /\ remote.result \in {"StopSimulated", "StopSent"}
              /\ \A r \in {out, sock, remote} :
                    /\ r.chargers[c] = ch0
                    /\ r.orders = orders

----------------------------------------------------------------------------
(* Properties of the database-backed handler, checked under SpecDb *)

StopMessage(tx_id) == Msg("StopTransaction", "", "", tx_id, NoVal, NoVal)

\* C5: once a transaction has been started and stopped, its order order_<transactionId>
\* exists, is completed, and has duration, energy and total cost all filled in.
C5_StoppedOrderComplete ==
    \A i \in 1..Len(db_transactions) :
        db_transactions[i].status = "completed" =>
            LET order == db_orders[db_transactions[i].transaction_id]
            IN /\ order.exists
               /\ order.status = "completed"
               /\ order.duration_minutes # NoVal
               /\ order.energy_kwh # NoVal
               /\ order.total_cost # NoVal

\* C6: a StopTransaction repeated for a transaction that is already completed succeeds and
\* changes nothing: end time, duration and energy are not computed again.
C6_StopIdempotent ==
    \A i \in 1..Len(db_transactions) :
        db_transactions[i].status = "completed" =>
            LET row == db_transactions[i]
                out == handle_message(DbState, row.charger_id, StopMessage(row.transaction_id),
                                      now, TRUE)
            IN /\ out.result = "Stopped"
               /\ out.transactions = db_transactions
               /\ out.orders = db_orders

\* the orders whose transaction reference is the row id of a transaction
OrdersOfTransaction(id) ==
    {o \in DOMAIN db_orders : db_orders[o].exists /\ db_orders[o].transaction_id = id}

\* C27: orders and transactions are one-to-one: every transaction StartTransaction has
\* created has exactly one order that refers to it, the one StopTransaction finds through
\* the order's transaction reference, and no order refers to two transactions or belongs
\* to another charger than its transaction.
C27_OneOrderPerTransaction ==
    \A i \in 1..Len(db_transactions) :
        /\ Cardinality(OrdersOfTransaction(i)) = 1
        /\ FindOrderOfTransaction(db_orders, i) \in OrdersOfTransaction(i)
        /\ \A o \in OrdersOfTransaction(i) :
              db_orders[o].charger_id = db_transactions[i].charger_id

----------------------------------------------------------------------------
(* Properties of the pull transport, checked under SpecPull *)

\* the messages the polls of charger c have handed out, nulls left out
Delivered(c) == SelectSeq(http_handed[c], LAMBDA m : m # NullMessage)

IsPrefix(s, t) == Len(s) <= Len(t) /\ \A i \in 1..Len(s) : s[i] = t[i]

\* C15: on the pull transport every message queued for a charger is handed to that
\* charger exactly once and in the order it was queued, one per poll: what the polls
\* have delivered is a prefix of what was queued for that charger, what is still stored
\* is exactly the rest, and a poll returns null exactly when nothing queued is undelivered.
C15_PullQueueFifo ==
    /\ [](\A c \in ChargerIds :
             /\ IsPrefix(Delivered(c), http_queued[c])
             /\ Len(pending_requests[c]) = Len(http_queued[c]) - Len(Delivered(c)))
    /\ [][\A c \in ChargerIds :
             http_handed'[c] # http_handed[c] =>
                 (http_handed'[c][Len(http_handed'[c])] = NullMessage
                    <=> Len(Delivered(c)) = Len(http_queued[c]))]_vars

----------------------------------------------------------------------------
(* Properties of TransportManager.send_message, checked under SpecTm *)

\* position of transport t in the order the manager prefers for a call: the caller's
\* preferred transport first, then pubsub, socket, pull
Rank(t, preferred) ==
    IF t = preferred THEN 0
    ELSE CHOOSE i \in 1..Len(transport_priority) : transport_priority[i] = t

\* the adapters that exist and report the charger connected in the latest call
Usable == tm_last.adapters \cap tm_last.connected

\* the transport the stated order names for the latest call: the preferred one when it
\* is usable, else the first usable one of pubsub, socket, pull, else pull when it is
\* enabled, else failure
StatedChoice ==
    IF Usable # {}
    THEN CHOOSE t \in Usable : \A u \in Usable : Rank(t, tm_last.preferred) <= Rank(u, tm_last.preferred)
    ELSE IF "HTTP" \in tm_last.adapters THEN "HTTP" ELSE "ConnectionError"

\* C14 (as stated): each send_message call delivers through the preferred transport when
\* it reports the charger connected, else through the first connected one of pubsub,
\* socket, pull, else queues on pull when pull is enabled, else fails; and it hands the
\* message to at most one adapter.
C14_OneAdapterInOrder ==
    tm_last.called =>
        /\ tm_last.result = StatedChoice
        /\ Len(tm_last.tried) <= 1

\* C14 (amended): the stated order is the order in which adapters are tried.  The result
\* is that of the first adapter, in that order, whose send returns: every usable adapter
\* ranked before it has raised, each adapter tried before the last one has raised, the
\* pull queue is the last resort whether or not the charger has polled, and the call
\* fails only when no send returned and pull is not enabled.  A call in which no usable
\* adapter raises hands the message to exactly one adapter or fails without handing it.
C14_FirstReturningAdapterInOrder ==
    tm_last.called =>
        LET r == tm_last.result
            tried == tm_last.tried
        IN /\ r \in TransportTypes =>
                /\ r \in tm_last.adapters
                /\ r \notin tm_last.raises
                /\ r \in tm_last.connected \/ r = "HTTP"
                /\ tried # << >> /\ tried[Len(tried)] = r
                /\ \A u \in Usable :
                      Rank(u, tm_last.preferred) < Rank(r, tm_last.preferred)
                          => u \in tm_last.raises
                /\ r \notin Usable => Usable \subseteq tm_last.raises
           /\ r \notin TransportTypes =>
                /\ r = "ConnectionError"
                /\ "HTTP" \notin tm_last.adapters
                /\ Usable \subseteq tm_last.raises
           /\ \A i \in 1..(Len(tried) - 1) : tried[i] \in tm_last.raises /\ tried[i] \in Usable
           /\ Usable \cap tm_last.raises = {} =>
                /\ r = StatedChoice
                /\ Len(tried) = IF r \in TransportTypes THEN 1 ELSE 0

\* a call in which the pubsub adapter raised and the message went on to the pull queue
C14_Witness ==
    /\ tm_last.called
    /\ "MQTT" \in Usable /\ "MQTT" \in tm_last.raises
    /\ tm_last.result = "HTTP"
    /\ Len(tm_last.tried) >= 2
    /\ Len(pending_requests[tm_last.charger]) >= 1

\* charger c is attached to some transport: the socket route of the monolith, or an
\* adapter of the transport manager reports it connected
AttachedToSomeTransport(c) ==
    \/ charger_websockets[c]
    \/ \E t \in tm_adapters : is_connected(t, c, mqtt_connected, ws_connections, charger_sessions)

\* C22: RemoteStart simulates the transaction exactly when the charger is attached to no
\* transport, and the simulation creates an ongoing order, sets the charger to Charging
\* with the transaction id and the order id in its session, and reports simulated.
C22_SimulatedOnlyWhenUnattached ==
    \A c \in ChargerIds :
        LET out == remote_start(RedisState, c, charger_websockets[c], now, "up")
        IN /\ out.result = "Simulated" => ~AttachedToSomeTransport(c)
           /\ ~AttachedToSomeTransport(c) =>
                 /\ out.result = "Simulated"
                 /\ out.chargers[c].status = "Charging"
                 /\ out.chargers[c].transaction_id = out.transactionId
                 /\ out.chargers[c].order_id = out.transactionId
                 /\ out.orders[out.transactionId].status = "ongoing"
                 /\ out.orders[out.transactionId].charger_id = c

\* C25: the messages of one charger take effect in the order they are received, one at
\* a time, on whichever transport they arrive: the step on which an adapter receives a
\* request of charger c (the store working) leaves the charger records and the orders as
\* the handler of that request leaves them, so the next request finds its effect.
C25_EffectInReceiveOrder ==
    [][\A c \in ChargerIds, msg \in TmInboundMessages :
          LET out == handle_ocpp_message(RedisState, c, msg, now, "up")
          IN ((\E handled \in BOOLEAN : MqttMessage(c, msg, "up", handled))
              \/ TmHttpPost(c, msg, "up"))
             => (chargers' = out.chargers /\ orders' = out.orders)]_vars

----------------------------------------------------------------------------
(* Properties of the remote-command path, checked under SpecRelay and SpecSubscriber *)

\* C19: a remote command is resolved in this order: a charger attached to the node the
\* call arrives at goes to the local sender; else, in distributed mode, a charger for
\* which the shared registry names an owning node is relayed; else the call fails with
\* ChargerNotConnected and nothing is sent or published.
C19_ResolutionOrder ==
    \A id \in 1..Len(relay_calls) :
        LET k == relay_calls[id]
        IN /\ k.local => k.route = "local"
           /\ (~k.local /\ k.owner # NoNode) => (k.route = "remote" /\ k.published)
           /\ (~k.local /\ k.owner = NoNode) =>
                 (k.route = "ChargerNotConnected" /\ ~k.published /\ k.written = NoNode)

\* C20: a relayed call whose envelope reaches the node that holds the charger's socket is
\* executed there: the outbound call is written to the socket on that node and its
\* response key is set (or has been read by the waiting node).
C20_RelayExecuted ==
    \A id \in 1..Len(relay_calls) :
        LET k == relay_calls[id]
        IN k.handled_by # NoNode =>
              /\ k.written = k.handled_by
              /\ id \in response_keys \/ k.result = "relayed"

\* C21: the shared-registry record of a charger is replaced or deleted only by the node
\* that owns it: whenever the record of charger c, owned by node n, changes, the step is
\* the end of n's own route for c.
C21_OnlyOwnerWritesRecord ==
    [][\A c \in ChargerIds :
          (connection_key[c] # NoNode /\ connection_key'[c] # connection_key[c])
          => (<< connection_key[c], c >> \in route_coroutines
              /\ << connection_key[c], c >> \notin route_coroutines')]_vars

\* C34: in distributed mode, as long as a charger is held in a node's local mapping the
\* shared registry holds a record of the charger that names this node, and once the
\* charger is held by no node the registry holds no record of it.
C34_RegistryMatchesLocalMapping ==
    enable_distributed =>
        \A c \in ChargerIds :
            /\ \A n \in Nodes : c \in local_connections[n] => connection_key[c] = n
            /\ (\A n \in Nodes : c \notin local_connections[n]) => connection_key[c] = NoNode

\* node n takes envelope id from its subscription in this step
TakesEnvelope(n, id) ==
    /\ route_inbox[n] # << >>
    /\ Head(route_inbox[n]) = id
    /\ route_inbox'[n] = Tail(route_inbox[n])

----------------------------------------------------------------------------
(* Properties of the socket route, checked under SpecWs *)

\* C11: every request frame a charger sends on its socket is dispatched to the inbound
\* handler (by the receive loop), also when it arrives while an outbound call is waiting
\* for its answer.
C11_EveryRequestDispatched ==
    \A i \in 1..Len(ws_frames) :
        ws_frames[i].kind = "request" => ws_frames[i].to = LoopWaiter

\* the response to call k reached the server while the call was still waiting
AnsweredInTime(k) ==
    \E i \in 1..Len(ws_frames) :
        ws_frames[i].kind = "response" /\ ws_frames[i].of = k /\ ws_frames[i].in_time

\* C12: an outbound call written to a socket that stays up ends with the charger's
\* response when that response arrives before the timeout, and with the timeout result
\* otherwise.
C12_ResponseOrTimeout ==
    \A k \in 1..Len(ws_calls) :
        LET call == ws_calls[k]
        IN (call.state = "done" /\ call.handle # NoHandle /\ call.result.kind # "Disconnected")
           => IF AnsweredInTime(k)
              THEN /\ call.result.kind = "frame"
                   /\ ws_frames[call.result.frame].of = k
              ELSE call.result.kind = "Timeout"

\* C13: the frame an outbound call returns is the response to that call: never a frame
\* the charger sent for another reason, never the late response to an earlier call.
C13_ReturnsOwnResponse ==
    \A k \in 1..Len(ws_calls) :
        ws_calls[k].result.kind = "frame"
        => /\ ws_frames[ws_calls[k].result.frame].kind = "response"
           /\ ws_frames[ws_calls[k].result.frame].of = k

\* the header names ocpp1.6 among its comma-separated items, blanks aside
OffersOcpp16(header) ==
    \E i \in 1..Len(header) : header[i] \in {"ocpp1.6", " ocpp1.6 "}

\* C16: a socket whose handshake does not offer ocpp1.6 is closed with code 1002 before
\* it is accepted: it is never in the registry, and the handshake changes neither the
\* registry nor any charger record nor any order.
C16_RefusedBeforeAccept ==
    /\ [](\A h \in SocketHandles :
             (ws_sockets[h].state # "unused" /\ ~OffersOcpp16(ws_sockets[h].header))
             => /\ ws_sockets[h].state = "refused"
                /\ ws_sockets[h].close_code = 1002
                /\ \A c \in ChargerIds : ws_registry[c] # h)
    /\ [][\A h \in SocketHandles :
             (ws_sockets[h].state = "unused" /\ ws_sockets'[h].state # "unused"
              /\ ~OffersOcpp16(ws_sockets'[h].header))
             => (ws_registry' = ws_registry /\ chargers' = chargers /\ orders' = orders
                 /\ ws_waiters' = ws_waiters)]_vars

\* a handshake that offered only OCPP1.6 in capitals has been refused
C16_Witness ==
    \E h \in SocketHandles :
        /\ ws_sockets[h].state = "refused"
        /\ ws_sockets[h].header = << "OCPP1.6" >>
        /\ ws_sockets[h].close_code = 1002

\* C17: once a socket is lost the registry does not return its handle, and an outbound
\* call made afterwards is not written to it.
C17_LostSocketDetached ==
    /\ \A c \in ChargerIds :
          ws_registry[c] # NoHandle => ws_sockets[ws_registry[c]].state = "open"
    /\ \A k \in 1..Len(ws_calls) : ws_calls[k].handle \notin ws_calls[k].lost_before

\* a socket that had been accepted was lost, and an outbound call to its charger was
\* made after the loss
C17_Witness ==
    \E k \in 1..Len(ws_calls) : \E h \in ws_calls[k].lost_before :
        /\ ws_sockets[h].charger = ws_calls[k].charger
        /\ OffersOcpp16(ws_sockets[h].header)


----------------------------------------------------------------------------
(* Properties of the shutdown of the transports, checked under SpecStop *)

\* C26: TransportManager.shutdown ends every outbound call that is in flight with a
\* ShuttingDown error (a call found waiting once the adapters are gone ends with nothing
\* else), and after the shutdown no adapter reports a charger connected and no queued
\* outbound message is left to be delivered.
C26_ShutdownEndsCalls ==
    [][/\ \A c \in ChargerIds :
             (tm_adapters = {} /\ adapter_calls[c] = "waiting" /\ adapter_calls'[c] # "waiting")
             => adapter_calls'[c] = "ShuttingDown"
       /\ (tm_adapters # {} /\ tm_adapters' = {}) =>
             \A c \in ChargerIds :
                /\ \A t \in TransportTypes :
                      ~is_connected(t, c, mqtt_connected', ws_connections', charger_sessions')
                /\ pending_requests'[c] = << >>]_vars


----------------------------------------------------------------------------
(* Properties of the figures of a completed order, checked under SpecEnergy *)

\* 60 * energy_kwh - charging_rate * duration_minutes, both stored values in hundredths:
\* 6000 times the difference between energyKWh and chargingRate * durationMinutes / 60
EnergyGap(order) == 60 * order.energy_kwh - order.charging_rate * order.duration_minutes

\* C30 as stated: the stored energy of every completed order differs from charging rate
\* times stored duration in minutes / 60 by at most 0.01 kWh, for every charging rate and
\* duration.
C30_EnergyWithinHundredth ==
    timed_order.status = "completed" => Abs(EnergyGap(timed_order)) <= 60

\* C30, amended: the stored energy of every completed order differs from charging rate
\* times stored duration in minutes / 60 by at most 0.005 * (1 + chargingRate / 60) kWh,
\* the two roundings added up; that is within 0.01 kWh for charging rates up to 60 kW.
C30_EnergyWithinBothRoundings ==
    timed_order.status = "completed" =>
        /\ 2 * Abs(EnergyGap(timed_order)) <= 60 + timed_order.charging_rate
        /\ timed_order.charging_rate <= 60 => Abs(EnergyGap(timed_order)) <= 60

\* C30, reached: a completed order of a 150 kW charger whose stored energy is more than
\* 0.01 kWh away from what its stored duration gives.
C30_Witness ==
    /\ timed_order.status = "completed"
    /\ timed_order.charging_rate = 150
    /\ Abs(EnergyGap(timed_order)) > 60


----------------------------------------------------------------------------
(* Properties of the heartbeat history, checked under SpecHeartbeat *)

\* the newest row of charger c before row i, 0 when row i is the charger's first
PreviousRow(history, i) ==
    LET earlier == {k \in 1..(i - 1) : history[k].charger_id = history[i].charger_id}
    IN IF earlier = {} THEN 0 ELSE CHOOSE k \in earlier : \A j \in earlier : j <= k

----------------------------------------------------------------------------
(* Properties of the status history, checked under SpecStatus *)

\* C32: every StatusNotification adds one StatusEvent of the charger, whose previous
\* status is the status the charger held immediately before the message.
C32_EveryStatusNotificationRecorded ==
    [][\A c \in ChargerIds, st \in ReportedStatuses :
          StatusAdapterMessage(c, Msg("StatusNotification", st, "", NoVal, NoVal, NoVal))
          => /\ Len(status_history') = Len(status_history) + 1
             /\ status_history'[Len(status_history')].charger_id = c
             /\ status_history'[Len(status_history')].status = st
             /\ status_history'[Len(status_history')].previous_status =
                    LoadedCharger(chargers, c).status]_vars


----------------------------------------------------------------------------
(* Properties of the pull adapter's sessions, checked under SpecPull *)

\* C33: the pull adapter reports a charger connected only if it has POSTed within the
\* freshness window: after a silence longer than the window no charger is reported
\* connected.
C33_ConnectedOnlyWithinWindow ==
    [][PullIdle => \A c \in ChargerIds :
                      ~is_connected("HTTP", c, mqtt_connected', ws_connections',
                                    charger_sessions')]_vars


----------------------------------------------------------------------------
(* Frame properties of the Redis-backed monolith, checked under Spec *)

\* C36: handling an inbound message or an operator call for one charger leaves the
\* stored record of every other charger unchanged.
C36_OtherChargersUnchanged ==
    \A a \in ChargerIds : \A b \in ChargerIds \ {a} :
        /\ \A msg \in Messages :
              /\ handle_ocpp_message(RedisState, a, msg, now, "up").chargers[b] = chargers[b]
              /\ ocpp_ws_message(RedisState, a, msg, now, "up").chargers[b] = chargers[b]
        /\ \A attached \in BOOLEAN :
              /\ remote_start(RedisState, a, attached, now, "up").chargers[b] = chargers[b]
              /\ remote_stop(RedisState, a, attached, now, "up").chargers[b] = chargers[b]


----------------------------------------------------------------------------
(* Properties of the socket registry over reconnects, checked under SpecReconnect *)

\* the accepted sockets of charger c whose coroutine has not ended
LiveSockets(c) ==
    {i \in 1..Len(ws_accepted) : ws_accepted[i].charger = c /\ ws_accepted[i].live}

\* C37: the socket registry maps every charger id to its most recently accepted live
\* socket, also after the coroutine of an earlier socket of the same id has ended.
C37_RegistryHoldsNewestSocket ==
    \A c \in ChargerIds :
        LiveSockets(c) # {} =>
            /\ ws_current[c] \in LiveSockets(c)
            /\ \A i \in LiveSockets(c) : i <= ws_current[c]


\* C38: an order that is completed is never modified again: no later message or operator
\* call sets it back to ongoing or changes its end time, duration or energy.
C38_CompletedOrderIsFinal ==
    [][\A o \in TxIds : orders[o].status = "completed" => orders'[o] = orders[o]]_vars


----------------------------------------------------------------------------
(* Properties of a reader beside the handlers, checked under SpecReader *)

\* C39: no update is lost: when load_chargers writes the record of a charger back, the
\* stored record keeps the status and session a handler has committed; the write changes
\* nothing but what the migration of the stored record changes.
C39_ReaderKeepsCommittedRecord ==
    [][\A c \in ChargerIds :
          ReaderSave(c) => chargers'[c] = migrate_charger_data(chargers[c])]_vars

====
